---- MODULE Spec2Model ----
(***************************************************************************)
(* A model of the obsidian-neovim synchronisation layer: the Sync Applier  *)
(* (src/src/sync.ts), the editor bridge, and the plugin's fallback polls   *)
(* and buffer attachment (src/src/nvim.ts).                                *)
(*                                                                         *)
(* Text is a sequence of one-character strings; "\n" separates lines, as   *)
(* in the strings the host editor's getValue()/setValue() exchange.  The   *)
(* engine's buffers are sequences of lines.                                *)
(***************************************************************************)
EXTENDS Integers, Sequences, FiniteSets, TLC

(***************************************************************************)
(* Bounds of the model.                                                    *)
(***************************************************************************)
MaxLines == 3      \* lines of a host document drawn by InitApply
MaxData == 2       \* replacement lines of an event drawn by InitApply
NumEditors == 2    \* host editors
MaxBufs == 2       \* engine buffers
MaxWire == 2       \* messages in flight from the engine
MaxKeys == 2       \* keydowns forwarded in one behaviour
MaxSwitches == 1   \* changes of the active editor in one behaviour
MaxPolls == 2      \* outstanding callbacks of one fallback poll
MaxSyncs == 2      \* invocations of syncActiveEditorToNvim
MaxCol == 3
MaxCalls == 1
MaxRecoveries == 2 \* attemptRecovery calls on one manager
MaxCancels == 1    \* cancel() calls
MaxResets == 1     \* reset() calls
MaxOps == 2        \* mode_change and grid_cursor_goto ops in one redraw
MaxTime == 120     \* the clock stops here
MaxRecords == 102  \* calls of each record function of the metrics
MaxSessions == 3   \* engine sessions the plugin starts

\* Program constants.
FallbackIntervalMs == 50   \* maybeScheduleFallbackSync: now - lastFallbackSyncTs < 50
KeySyncDelayMs == 33       \* handleKeyDrivenSync: setTimeout(..., 33)

NL == "\n"
NoEditor == 0
NoBuf == 0
\* The line contents used as inputs: the empty line and two lines of
\* different length with different characters.
LineVals == {<<>>, <<"a">>, <<"b", "c">>}

Min(a, b) == IF a < b THEN a ELSE b
Max(a, b) == IF a > b THEN a ELSE b

SeqsUpTo(S, n) == UNION {[1..k -> S] : k \in 0..n}

(***************************************************************************)
(* Strings: Array.prototype.join("\n") and String.prototype.split("\n").   *)
(***************************************************************************)
RECURSIVE Join(_)
Join(ls) ==
  IF Len(ls) = 0 THEN <<>>
  ELSE IF Len(ls) = 1 THEN ls[1]
  ELSE ls[1] \o <<NL>> \o Join(Tail(ls))

RECURSIVE Split(_)
Split(t) ==
  IF \A i \in 1..Len(t) : t[i] # NL THEN <<t>>
  ELSE LET i == CHOOSE j \in 1..Len(t) :
                  t[j] = NL /\ \A k \in 1..(j - 1) : t[k] # NL
       IN <<SubSeq(t, 1, i - 1)>> \o Split(SubSeq(t, i + 1, Len(t)))

(***************************************************************************)
(* The host editor (the Editor interface the plugin is handed): a document *)
(* is its text; positions are {line, ch}, both 0-based.                    *)
(***************************************************************************)
lineCount(t) == Len(Split(t))

\* ed.getLine(n) ?? "": a line outside the document reads as empty.
getLine(t, n) ==
  IF n >= 0 /\ n < lineCount(t) THEN Split(t)[n + 1] ELSE <<>>

\* Offset of the first character of line n (0 <= n < lineCount).
LineStart(t, n) == Len(Join(SubSeq(Split(t), 1, n))) + (IF n > 0 THEN 1 ELSE 0)

\* posToOffset: a position outside the document is clipped into it.
posToOffset(t, pos) ==
  IF pos.line < 0 THEN 0
  ELSE IF pos.line >= lineCount(t) THEN Len(t)
  ELSE LineStart(t, pos.line) + Max(0, Min(pos.ch, Len(getLine(t, pos.line))))

\* The host rejects a range whose start lies after its end (it throws).
RangeThrows(t, from, to) == posToOffset(t, from) > posToOffset(t, to)

\* ed.replaceRange(text, from, to) on a range the host accepts.
replaceRange(t, ins, from, to) ==
  SubSeq(t, 1, posToOffset(t, from)) \o ins
    \o SubSeq(t, posToOffset(t, to) + 1, Len(t))

\* offsetToPos: the position of offset o (0 <= o <= Len(t)).
offsetToPos(t, o) ==
  LET n == Cardinality({i \in 1..o : t[i] = NL})
  IN [line |-> n, ch |-> o - LineStart(t, n)]

\* Where the host leaves a cursor at offset pos when [from, to) is replaced
\* by insLen characters: before the change it stays, inside the replaced
\* range it goes to its start, at an insertion point it stays before the
\* insertion, after the change it moves with the text.
MapPos(pos, from, to, insLen) ==
  IF pos < to \/ (pos = to /\ from = to) THEN Min(pos, from)
  ELSE pos - (to - from) + insLen

\* The cursor after ed.replaceRange(text, from, to), cursor cur before it.
replaceRangeCursor(t, cur, ins, from, to) ==
  offsetToPos(replaceRange(t, ins, from, to),
              MapPos(posToOffset(t, cur), posToOffset(t, from),
                     posToOffset(t, to), Len(ins)))

\* The cursor after ed.setValue(text): the whole document is replaced.
setValueCursor(t, cur, text) ==
  offsetToPos(text, MapPos(posToOffset(t, cur), 0, Len(t), Len(text)))

(***************************************************************************)
(* src/src/sync.ts                                                         *)
(***************************************************************************)
clamp(n, lo, hi) == Max(lo, Min(hi, n))

posAtDocEnd(t) ==
  IF lineCount(t) <= 0 THEN [line |-> 0, ch |-> 0]
  ELSE [line |-> lineCount(t) - 1, ch |-> Len(getLine(t, lineCount(t) - 1))]

\* The end position of the earlier applyEvent: the start of line toLine.
endPos_StartOfLine(t, toLineExclusive) ==
  IF toLineExclusive < lineCount(t) THEN [line |-> toLineExclusive, ch |-> 0]
  ELSE posAtDocEnd(t)

endPosForExclusiveLineIndex(t, toLineExclusive) ==
  IF toLineExclusive <= 0 THEN [line |-> 0, ch |-> 0]
  ELSE IF toLineExclusive >= lineCount(t) THEN posAtDocEnd(t)
  ELSE [line |-> toLineExclusive - 1,
        ch |-> Len(getLine(t, toLineExclusive - 1))]

\* EditorBridge.replaceRange: a throwing host is caught and nothing changes.
bridgeReplaceRange(t, from, to, ins) ==
  IF RangeThrows(t, from, to) THEN t ELSE replaceRange(t, ins, from, to)

\* The range SyncApplier.applyEvent computes for an event on document t.
applyFrom(t, ev) == [line |-> clamp(ev.firstline, 0, Max(0, lineCount(t))), ch |-> 0]
applyTo(t, ev) ==
  endPosForExclusiveLineIndex(t, clamp(ev.lastline, 0, Max(0, lineCount(t))))

\* SyncApplier.applyEvent on the text of the active editor.
applyEvent(t, ev) ==
  bridgeReplaceRange(t, applyFrom(t, ev), applyTo(t, ev), Join(ev.linedata))

\* The cursor of the active editor after SyncApplier.applyEvent.
applyEventCursor(t, cur, ev) ==
  IF RangeThrows(t, applyFrom(t, ev), applyTo(t, ev)) THEN cur
  ELSE replaceRangeCursor(t, cur, Join(ev.linedata), applyFrom(t, ev),
                          applyTo(t, ev))

(***************************************************************************)
(* State.                                                                  *)
(***************************************************************************)
VARIABLES
  active,              \* the host's active editor, NoEditor when there is none
  hostText,            \* hostText[e]: the document of editor e
  bufLines,            \* engine: bufLines[b], the lines of buffer b
  curBuf,              \* engine: the current buffer
  subscribed,          \* engine: buffers attached for change notifications
  changedtick,         \* engine: the change counter of its last edit
  engMode,             \* engine: its mode
  pendingInput,        \* engine: keys received by nvim_input, not yet processed
  wire,                \* messages from the engine, in the order it sent them
  queue,               \* SyncApplier.queue
  scheduled,           \* SyncApplier.scheduled
  flushCb,             \* flush callbacks handed to requestAnimationFrame
  events,              \* flush(): the captured events not yet applied
  mode,                \* NvimHost.mode
  attachedBuf,         \* plugin.attachedBuf, NoBuf for null
  sy,                  \* suspended invocations of syncActiveEditorToNvim
  numBufs,             \* engine: buffers created so far
  syncs,               \* invocations of syncActiveEditorToNvim so far
  pendingFallback,     \* plugin.pendingFallback
  lastFallbackSyncTs,  \* plugin.lastFallbackSyncTs
  inputSyncThrottled,  \* plugin.inputSyncThrottled
  mp,                  \* outstanding callbacks of maybeScheduleFallbackSync
  kp,                  \* outstanding callbacks of handleKeyDrivenSync
  now,                 \* Date.now()
  keys,                \* keydowns forwarded so far
  switches,            \* changes of the active editor so far
  enqLog,              \* history: every event passed to enqueue, in order
  appLog,              \* history: every event handed to applyEvent, in order
  flushMark,           \* history: Len(appLog) and Len(enqLog) when flush() last captured
  staleWrite,          \* history: a host write went to an editor not active
  mpSchedAt,           \* history: when the last mode-gated poll was scheduled
  mpLastFinish,        \* history: when the last mode-gated poll finished, or -1
  kpStarts,            \* history: when each key-sync poll started, in order
  hostCursor,          \* hostCursor[e]: the cursor {line, ch} of editor e
  engCursor,           \* engine: the cursor {line, col} of its window
  nh,                  \* NvimHost: its process, client, handler and the
                       \* operation under way, with the calls it has made
  cursorAns,           \* history: the last answer to nvim_win_get_cursor and
                       \* the position getCursor() returned for it
  rm,                  \* ErrorRecoveryManager: its fields, its configuration
                       \* and the attemptRecovery calls made on it
  kt,                  \* the last keydown event given to translateKey and
                       \* what it returned
  pm,                  \* PerformanceMetrics: the retained samples of each
                       \* metric and, as history, every value recorded
  kpOwed,              \* history: handleKeyDrivenSync has been called since
                       \* a key-sync poll last issued its getBufferText()
  pl                   \* NeovimBackendPlugin: how onload ended, the engine
                       \* sessions it made, which of them have listeners,
                       \* the key handlers installed and, as history, what
                       \* became of the last notification and keydown

hostVars == <<active, hostText>>
engineVars == <<bufLines, curBuf, subscribed, changedtick, engMode, pendingInput>>
applierVars == <<queue, scheduled, flushCb, events>>
throttleVars == <<pendingFallback, lastFallbackSyncTs, inputSyncThrottled>>
pollVars == <<mp, kp>>
envVars == <<now, keys, switches>>
\* Before any answer: as after the answer [1, 0].
NoAnswer == [raw |-> [line1 |-> 1, col |-> 0], pos |-> [line |-> 0, col |-> 0]]

(***************************************************************************)
(* ErrorRecoveryManager (error-recovery.ts): the data.                     *)
(***************************************************************************)
DEFAULT_RECOVERY_CONFIG ==
  [maxRetries |-> 5, retryDelayMs |-> 1000, backoffMultiplier |-> 2,
   maxDelayMs |-> 30000]

RECURSIVE Pow(_, _)
Pow(b, e) == IF e = 0 THEN 1 ELSE b * Pow(b, e - 1)

\* calculateDelay() with this.retryCount = n.
calculateDelay(cfg, n) ==
  IF n = 1 THEN cfg.retryDelayMs
  ELSE Min(cfg.retryDelayMs * Pow(cfg.backoffMultiplier, n - 1), cfg.maxDelayMs)

Recoveries == 1..MaxRecoveries
NoTimer == 0

\* One attemptRecovery call: where it stands ("idle": not made yet), how
\* often its callback was invoked, what it returned, whether
\* the timeout of its sleep is pending, the waits it slept, and as history
\* whether it was made while another call was in progress, whether that
\* changed the retry count, and the number of invocations when cancel()
\* found it in progress (-1: never).
IdleCall ==
  [pc |-> "idle", invoked |-> 0, result |-> "none",
   armed |-> FALSE, waits |-> <<>>, overlap |-> FALSE, disturbed |-> FALSE,
   cancelledAt |-> -1]

\* The manager as constructed with configuration cfg.
RmInit(cfg) ==
  [retryCount |-> 0, isRecovering |-> FALSE, recoveryTimer |-> NoTimer,
   config |-> cfg, calls |-> [c \in Recoveries |-> IdleCall],
   cancels |-> 0, resets |-> 0]

(***************************************************************************)
(* translateKey (cm6.ts).  A key encoding is the sequence of the pieces    *)
(* its string is put together from: "<C-a>" is <<"<", "C-", "a", ">">>,    *)
(* "a" is <<"a">>; null is NoTerm.                                         *)
(***************************************************************************)
NoTerm == <<>>

\* KeyboardEvent.key values: keys of one character, the named keys of the
\* tables, function keys, the four modifiers and a named key in no table.
CharKeys == {"a", "A", "h", "H", "m", "M", "p", "P", "z", "[", ":", "1"}
\* functionKeyToTerm: /^F\d+$/ matches these and no other key of KeyNames.
FnKeys == {"F1", "F12", "F24", "F25"}
ModifierKeys == {"Shift", "Control", "Alt", "Meta"}
BaseTable ==
  [Escape |-> "Esc", Enter |-> "CR", Backspace |-> "BS", Tab |-> "Tab",
   ArrowUp |-> "Up", ArrowDown |-> "Down", ArrowLeft |-> "Left",
   ArrowRight |-> "Right", Home |-> "Home", End |-> "End",
   PageUp |-> "PageUp", PageDown |-> "PageDown", Insert |-> "Insert",
   Delete |-> "Del"]
CtrlSpecials ==
  {"ArrowUp", "ArrowDown", "ArrowLeft", "ArrowRight", "Home", "End",
   "PageUp", "PageDown", "Backspace", "Enter", "Tab"}
KeyNames == CharKeys \cup FnKeys \cup ModifierKeys \cup DOMAIN BaseTable
              \cup {"CapsLock"}

\* key.length === 1, key.toLowerCase(), c >= "a" && c <= "z".
IsChar(key) == key \in CharKeys
toLowerCase(c) ==
  IF c = "A" THEN "a" ELSE IF c = "H" THEN "h" ELSE IF c = "M" THEN "m"
  ELSE IF c = "P" THEN "p" ELSE c
IsLowerLetter(c) == c \in {"a", "h", "m", "p", "z"}

\* base.startsWith("<") && base.endsWith(">"), base.slice(1, -1).
Bracketed(t) == t # <<>> /\ t[1] = "<" /\ t[Len(t)] = ">"
Inner(t) == SubSeq(t, 2, Len(t) - 1)

isModifierOnly_WithoutFlags(e) ==
  /\ e.key \in ModifierKeys
  /\ ~(e.ctrlKey \/ e.altKey \/ e.metaKey \/ e.shiftKey)
isModifierOnly(e) == e.key \in ModifierKeys

baseKeyToTermcode_NoShiftTab(key, shift) ==
  IF IsChar(key) THEN <<key>>
  ELSE IF key \in FnKeys THEN <<"<", key, ">">>
  ELSE IF key \in DOMAIN BaseTable THEN <<"<", BaseTable[key], ">">>
  ELSE NoTerm
baseKeyToTermcode(key, shift) ==
  IF IsChar(key) THEN <<key>>
  ELSE IF key \in FnKeys THEN <<"<", key, ">">>
  ELSE IF key = "Tab" /\ shift THEN <<"<", "S-", "Tab", ">">>
  ELSE IF key \in DOMAIN BaseTable THEN <<"<", BaseTable[key], ">">>
  ELSE NoTerm

ctrlName_KeepCase(key) ==
  IF IsChar(key) /\ key = "h" THEN <<"<", "BS", ">">>
  ELSE IF IsChar(key) /\ key = "m" THEN <<"<", "CR", ">">>
  ELSE IF IsChar(key) /\ key = "[" THEN <<"<", "Esc", ">">>
  ELSE IF IsChar(key) /\ IsLowerLetter(key) THEN <<"<", "C-", key, ">">>
  ELSE IF key \in CtrlSpecials THEN <<"<", "C-", BaseTable[key], ">">>
  ELSE <<"<", "C-", key, ">">>
ctrlName(key) ==
  LET c == toLowerCase(key)
  IN IF IsChar(key) /\ c = "h" THEN <<"<", "BS", ">">>
     ELSE IF IsChar(key) /\ c = "m" THEN <<"<", "CR", ">">>
     ELSE IF IsChar(key) /\ c = "[" THEN <<"<", "Esc", ">">>
     ELSE IF IsChar(key) /\ IsLowerLetter(c) THEN <<"<", "C-", c, ">">>
     ELSE IF key \in CtrlSpecials THEN <<"<", "C-", BaseTable[key], ">">>
     ELSE <<"<", "C-", key, ">">>

altName(key, shift) ==
  LET base == baseKeyToTermcode(key, shift)
  IN IF IsChar(key) THEN <<"<", "M-", key, ">">>
     ELSE IF base # NoTerm /\ Bracketed(base)
     THEN <<"<", "M-">> \o Inner(base) \o <<">">>
     ELSE <<"<", "M-", key, ">">>

translateKey(e) ==
  LET altOrMeta == e.altKey \/ e.metaKey
      base == baseKeyToTermcode(e.key, e.shiftKey)
      baseOrKey == IF base = NoTerm THEN <<e.key>> ELSE base
  IN IF e.isComposing THEN NoTerm
     ELSE IF isModifierOnly(e) THEN NoTerm
     ELSE IF e.ctrlKey /\ altOrMeta
     THEN IF IsChar(e.key) THEN <<"<", "C-", "M-", e.key, ">">>
          ELSE IF Bracketed(baseOrKey)
          THEN <<"<", "C-", "M-">> \o Inner(baseOrKey) \o <<">">>
          ELSE <<"<", "C-", "M-">> \o baseOrKey \o <<">">>
     ELSE IF e.ctrlKey THEN ctrlName(e.key)
     ELSE IF altOrMeta THEN altName(e.key, e.shiftKey)
     ELSE IF base # NoTerm THEN base
     ELSE IF IsChar(e.key) THEN <<e.key>>
     ELSE NoTerm

KeyEvents ==
  [key : KeyNames, ctrlKey : BOOLEAN, altKey : BOOLEAN, metaKey : BOOLEAN,
   shiftKey : BOOLEAN, isComposing : BOOLEAN]

\* Before any keydown: as after a plain "a".
NoKey ==
  [e |-> [key |-> "a", ctrlKey |-> FALSE, altKey |-> FALSE, metaKey |-> FALSE,
          shiftKey |-> FALSE, isComposing |-> FALSE],
   term |-> <<"a">>]

logVars == <<enqLog, appLog, flushMark>>
histVars == <<staleWrite, mpSchedAt, mpLastFinish>>
attachVars == <<attachedBuf, sy, numBufs, syncs>>
keyHist == <<kpStarts>>
cursorVars == <<hostCursor, engCursor>>
vars == <<hostVars, engineVars, wire, applierVars, mode, attachVars,
          throttleVars, pollVars, envVars, logVars, histVars, keyHist,
          cursorVars, nh, cursorAns, rm, kt, pm, pl, kpOwed>>

Editors == 1..NumEditors
BufIds == 1..MaxBufs

Msg(t, ok, x) == [t |-> t, ok |-> ok, x |-> x]

(***************************************************************************)
(* The engine.  Its reply to a request and the notifications of an edit    *)
(* travel on one stream, so they reach the plugin in the order sent.       *)
(***************************************************************************)
\* nvim_buf_get_lines of the current buffer, joined: getBufferText().
getBufferText == Join(bufLines[curBuf])

\* nvim_get_mode: getMode().
getMode == engMode

\* The lines after replacing [f, l) by d.
Spliced(lines, f, l, d) ==
  SubSeq(lines, 1, f) \o d \o SubSeq(lines, l + 1, Len(lines))

\* The engine processes a key that edits the current buffer and notifies
\* the subscriber (nvim_buf_lines_event).
EngineEdit(f, l, d) ==
  /\ events = <<>>
  /\ pendingInput > 0
  /\ Len(wire) < MaxWire
  /\ f <= l /\ l <= Len(bufLines[curBuf])
  /\ Spliced(bufLines[curBuf], f, l, d) # bufLines[curBuf]
  /\ Len(Spliced(bufLines[curBuf], f, l, d)) \in 1..MaxLines
  /\ pendingInput' = pendingInput - 1
  /\ changedtick' = changedtick + 1
  /\ bufLines' = [bufLines EXCEPT ![curBuf] = Spliced(@, f, l, d)]
  /\ wire' = IF curBuf \in subscribed
             THEN Append(wire, Msg("lines", TRUE,
                    [buf |-> curBuf, changedtick |-> changedtick + 1,
                     firstline |-> f, lastline |-> l, linedata |-> d]))
             ELSE wire
  /\ UNCHANGED <<hostVars, curBuf, subscribed, engMode, applierVars, mode,
                 attachVars, throttleVars, pollVars, envVars, logVars, histVars, keyHist, cursorVars, nh, cursorAns, rm, kt, pm, pl, kpOwed>>

\* The payload of a redraw notification, reduced to what parseRedraw reads:
\* the mode named by each mode_change op, in order ("nil": an op without a
\* mode name), and the number of grid_cursor_goto ops.
Batch(modes, gotos) == [modes |-> modes, gotos |-> gotos]

\* The engine processes a key that edits the current buffer and moves the
\* cursor to c, a position of the edited buffer: it notifies the subscriber
\* and then redraws with a grid_cursor_goto op.
EngineEditCursor(f, l, d, c) ==
  /\ events = <<>>
  /\ pendingInput > 0
  /\ Len(wire) + 2 <= MaxWire
  /\ curBuf \in subscribed
  /\ f <= l /\ l <= Len(bufLines[curBuf])
  /\ Spliced(bufLines[curBuf], f, l, d) # bufLines[curBuf]
  /\ Len(Spliced(bufLines[curBuf], f, l, d)) \in 1..MaxLines
  /\ c.line < Len(Spliced(bufLines[curBuf], f, l, d))
  /\ c.col <= Len(Spliced(bufLines[curBuf], f, l, d)[c.line + 1])
  /\ c # engCursor
  /\ pendingInput' = pendingInput - 1
  /\ changedtick' = changedtick + 1
  /\ bufLines' = [bufLines EXCEPT ![curBuf] = Spliced(@, f, l, d)]
  /\ engCursor' = c
  /\ wire' = wire \o <<Msg("lines", TRUE,
                         [buf |-> curBuf, changedtick |-> changedtick + 1,
                          firstline |-> f, lastline |-> l, linedata |-> d]),
                     Msg("redraw", TRUE, Batch(<<>>, 1))>>
  /\ UNCHANGED <<hostVars, curBuf, subscribed, engMode, applierVars, mode,
                 attachVars, throttleVars, pollVars, envVars, logVars,
                 histVars, keyHist, hostCursor, nh, cursorAns, rm, kt, pm, pl, kpOwed>>

\* The engine redraws on its own (cursor, status line, messages): a redraw
\* batch without a mode_change op.
EngineRedraw ==
  /\ events = <<>>
  /\ Len(wire) < MaxWire
  /\ wire' = Append(wire, Msg("redraw", TRUE, Batch(<<>>, 0)))
  /\ UNCHANGED <<hostVars, engineVars, applierVars, mode, attachVars,
                 throttleVars, pollVars, envVars, logVars, histVars, keyHist, cursorVars, nh, cursorAns, rm, kt, pm, pl, kpOwed>>

\* The engine redraws with any batch: mode_change ops ms, after which its
\* mode is the last one named, and k grid_cursor_goto ops that leave its
\* cursor at c.  One such notification is in flight at a time.
EngineRedrawBatch(ms, k, c) ==
  /\ events = <<>>
  /\ Len(wire) < MaxWire
  /\ \A i \in 1..Len(wire) : wire[i].t # "redraw"
  /\ c.line < Len(bufLines[curBuf])
  /\ c.col <= Len(bufLines[curBuf][c.line + 1])
  /\ k = 0 => c = engCursor
  /\ engMode' = IF ms = <<>> THEN engMode
                 ELSE IF ms[Len(ms)] = "nil" THEN "normal" ELSE ms[Len(ms)]
  /\ engCursor' = c
  /\ wire' = Append(wire, Msg("redraw", TRUE, Batch(ms, k)))
  /\ UNCHANGED <<hostVars, bufLines, curBuf, subscribed, changedtick,
                 pendingInput, applierVars, mode, attachVars, throttleVars,
                 pollVars, envVars, logVars, histVars, keyHist, hostCursor, nh, cursorAns, rm, kt, pm, pl, kpOwed>>

\* The engine processes a key that edits nothing: it redraws, with a
\* mode_change op when the key changed the mode (m = "none": no such op).
EngineKey(m) ==
  /\ events = <<>>
  /\ pendingInput > 0
  /\ Len(wire) < MaxWire
  /\ m # engMode
  /\ pendingInput' = pendingInput - 1
  /\ engMode' = IF m = "none" THEN engMode ELSE m
  /\ wire' = Append(wire, Msg("redraw", TRUE,
                       Batch(IF m = "none" THEN <<>> ELSE <<m>>, 0)))
  /\ UNCHANGED <<hostVars, bufLines, curBuf, subscribed, changedtick,
                 applierVars, mode, attachVars, throttleVars, pollVars,
                 envVars, logVars, histVars, keyHist, cursorVars, nh, cursorAns, rm, kt, pm, pl, kpOwed>>

(***************************************************************************)
(* SyncApplier (src/src/sync.ts).  flush() runs to completion; the one     *)
(* thing allowed between two iterations of its loop is the arrival of a    *)
(* line-change notification, the re-entrant enqueue its swap guards        *)
(* against.  Every other action waits for events = <<>>.                   *)
(***************************************************************************)
\* The flush callbacks outstanding after enqueue: if (!this.scheduled)
\* requestAnimationFrame(() => this.flush()).
scheduleFlush_Always(sched, callbacks) == callbacks + 1
scheduleFlush(sched, callbacks) ==
  IF sched THEN callbacks ELSE callbacks + 1

\* enqueue(ev), reached from the nvim_buf_lines_event notification through
\* NvimHost's handler and the plugin's onLines.
enqueue ==
  /\ wire # <<>> /\ Head(wire).t = "lines"
  /\ wire' = Tail(wire)
  /\ queue' = Append(queue, Head(wire).x)
  /\ enqLog' = Append(enqLog, Head(wire).x)
  /\ scheduled' = TRUE
  /\ flushCb' = scheduleFlush(scheduled, flushCb)
  /\ UNCHANGED <<hostVars, engineVars, events, mode, attachVars, throttleVars,
                 pollVars, envVars, appLog, flushMark, histVars, keyHist, cursorVars, nh, cursorAns, rm, kt, pm, pl, kpOwed>>

\* A field of a notification payload as the engine's stream delivers it: a
\* number, a string holding a number, or null.  Math.min and Math.max, by
\* which applyEvent clamps firstline and lastline, convert a numeric string
\* to its number and null to 0.
Num(n) == [tag |-> "number", n |-> n]
Str(n) == [tag |-> "string", n |-> n]
Null == [tag |-> "null", n |-> 0]
ToNumber(v) == IF v.tag = "null" THEN 0 ELSE v.n

\* The engine sends a nvim_buf_lines_event whose payload args is not
\* [buf, changedtick, firstline, lastline, linedata] with numbers and lines.
EngineMalformed(args) ==
  /\ events = <<>>
  /\ pendingInput > 0
  /\ Len(wire) < MaxWire
  /\ pendingInput' = pendingInput - 1
  /\ wire' = Append(wire, Msg("rawlines", TRUE, args))
  /\ UNCHANGED <<hostVars, bufLines, curBuf, subscribed, changedtick, engMode,
                 applierVars, mode, attachVars, throttleVars, pollVars,
                 envVars, logVars, histVars, keyHist, cursorVars, nh, cursorAns, rm, kt, pm, pl, kpOwed>>

\* NvimHost's nvim_buf_lines_event handler and the plugin's onLines on such
\* a payload: it destructures args without a check; with fewer than five
\* elements linedata is undefined, ev.linedata.length throws in onLines and
\* the handler's catch logs it; otherwise the event is enqueued as it is,
\* and applyEvent later uses its firstline and lastline as numbers.
onLinesMalformed ==
  /\ wire # <<>> /\ Head(wire).t = "rawlines"
  /\ wire' = Tail(wire)
  /\ LET args == Head(wire).x
     IN IF Len(args) < 5
        THEN UNCHANGED <<queue, enqLog, scheduled, flushCb, nh, cursorAns, rm, kt, pm, pl, kpOwed>>
        ELSE LET ev == [buf |-> args[1], changedtick |-> args[2],
                        firstline |-> ToNumber(args[3]),
                        lastline |-> ToNumber(args[4]),
                        linedata |-> args[5]]
             IN /\ queue' = Append(queue, ev)
                /\ enqLog' = Append(enqLog, ev)
                /\ scheduled' = TRUE
                /\ flushCb' = scheduleFlush(scheduled, flushCb)
  /\ UNCHANGED <<hostVars, engineVars, events, mode, attachVars, throttleVars,
                 pollVars, envVars, appLog, flushMark, histVars, keyHist,
                 cursorVars, nh, cursorAns, rm, kt, pm, pl, kpOwed>>

\* What flush() captures of a non-empty queue and what it leaves queued:
\* events = this.queue.slice(); this.queue = [].
FlushCapture_First(q) == [events |-> <<Head(q)>>, queue |-> <<>>]
FlushCapture_KeepsQueue(q) == [events |-> q, queue |-> q]
FlushCapture(q) == [events |-> q, queue |-> <<>>]

\* flush(), up to its loop: the callback requestAnimationFrame runs.
flush ==
  /\ flushCb > 0
  /\ events = <<>>
  /\ flushCb' = flushCb - 1
  /\ scheduled' = FALSE
  /\ IF queue = <<>>
     THEN UNCHANGED <<queue, events, flushMark>>
     ELSE /\ events' = FlushCapture(queue).events
          /\ queue' = FlushCapture(queue).queue
          /\ flushMark' = [lo |-> Len(appLog), hi |-> Len(enqLog)]
  /\ UNCHANGED <<hostVars, engineVars, wire, mode, attachVars, throttleVars,
                 pollVars, envVars, enqLog, appLog, histVars, keyHist, cursorVars, nh, cursorAns, rm, kt, pm, pl, kpOwed>>

\* The documents after applyEvent(ev) with active editor a: without an
\* active editor it logs and returns.
applyEventActive_FirstEditor(texts, a, ev) ==
  [texts EXCEPT ![IF a = NoEditor THEN 1 ELSE a] = applyEvent(@, ev)]
applyEventActive(texts, a, ev) ==
  IF a = NoEditor THEN texts ELSE [texts EXCEPT ![a] = applyEvent(@, ev)]

\* One iteration of flush()'s loop: applyEvent(ev) on the editor that is
\* active now.
flushApply ==
  /\ events # <<>>
  /\ events' = Tail(events)
  /\ appLog' = Append(appLog, Head(events))
  /\ hostText' = applyEventActive(hostText, active, Head(events))
  /\ hostCursor' = IF active = NoEditor THEN hostCursor
                   ELSE [hostCursor EXCEPT
                           ![active] = applyEventCursor(hostText[active], @,
                                                        Head(events))]
  /\ UNCHANGED <<active, engineVars, wire, queue, scheduled, flushCb, mode,
                 attachVars, throttleVars, pollVars, envVars, enqLog,
                 flushMark, histVars, keyHist, engCursor, nh, cursorAns, rm, kt, pm, pl, kpOwed>>

(***************************************************************************)
(* The plugin (src/src/nvim.ts).                                           *)
(***************************************************************************)
\* The position the cursor handler sets for an engine cursor pos on
\* document t: the line clamped into the document, the column into the line.
CursorClamp_LineOnly(t, pos) ==
  [line |-> Max(0, Min(pos.line, Max(0, lineCount(t) - 1))), ch |-> pos.col]
CursorClamp(t, pos) ==
  LET clampedLine == Max(0, Min(pos.line, Max(0, lineCount(t) - 1)))
      lineText == getLine(t, clampedLine)
  IN [line |-> clampedLine, ch |-> Max(0, Min(pos.col, Len(lineText)))]

\* The first outstanding callback of polls that awaits a reply in state pc.
Waiting(polls, pc) ==
  CHOOSE i \in 1..Len(polls) :
    polls[i].pc = pc /\ \A j \in 1..(i - 1) : polls[j].pc # pc

Without(polls, i) == SubSeq(polls, 1, i - 1) \o SubSeq(polls, i + 1, Len(polls))

\* A reply of the engine to a request made now: it answers, or the call fails.
Reply(t, x) == {Msg(t, TRUE, x), Msg(t, FALSE, x)}

\* The capture handler of keydown: nvim.input(term); the engine queues the
\* key and the call settles (a failure is caught, and .finally runs alike).
keydown ==
  /\ events = <<>>
  /\ keys < MaxKeys
  /\ Len(wire) < MaxWire
  /\ keys' = keys + 1
  /\ pendingInput' = pendingInput + 1
  /\ wire' = Append(wire, Msg("ack", TRUE, ""))
  /\ UNCHANGED <<hostVars, bufLines, curBuf, subscribed, changedtick, engMode,
                 applierVars, mode, attachVars, throttleVars, pollVars, now,
                 switches, logVars, histVars, keyHist, cursorVars, nh, cursorAns, rm, kt, pm, pl, kpOwed>>

\* The throttle of the key-sync poll: if (this.inputSyncThrottled) return.
KeySyncThrottled_Never == FALSE
KeySyncThrottled == inputSyncThrottled

\* handleKeyDrivenSync(), run when nvim.input() settles (.finally dispatches
\* obsidian-neovim-input).
handleKeyDrivenSync ==
  /\ events = <<>>
  /\ wire # <<>> /\ Head(wire).t = "ack"
  /\ wire' = Tail(wire)
  /\ IF KeySyncThrottled \/ Len(kp) >= MaxPolls
     THEN UNCHANGED <<inputSyncThrottled, kp>>
     ELSE /\ inputSyncThrottled' = TRUE
          /\ kp' = Append(kp, [pc |-> "timer", ed |-> NoEditor,
                               due |-> now + KeySyncDelayMs])
  /\ kpOwed' = TRUE
  /\ UNCHANGED <<hostVars, engineVars, applierVars, mode, attachVars,
                 pendingFallback, lastFallbackSyncTs, mp, envVars, logVars,
                 histVars, keyHist, cursorVars, nh, cursorAns, rm, kt, pm, pl>>

\* The timer callback of handleKeyDrivenSync, up to await getBufferText().
keySyncTick(i) ==
  /\ events = <<>>
  /\ kp[i].pc = "timer"
  /\ now >= kp[i].due
  /\ IF active = NoEditor
     THEN /\ kp' = Without(kp, i)
          /\ inputSyncThrottled' = FALSE
          /\ UNCHANGED wire
     ELSE /\ Len(wire) < MaxWire
          /\ kp' = [kp EXCEPT ![i] = [@ EXCEPT !.pc = "text", !.ed = active]]
          /\ \E r \in Reply("keytext", getBufferText) : wire' = Append(wire, r)
          /\ UNCHANGED inputSyncThrottled
  /\ kpStarts' = Append(kpStarts, now)
  /\ kpOwed' = (kpOwed /\ active = NoEditor)
  /\ UNCHANGED <<hostVars, engineVars, applierVars, mode, attachVars,
                 pendingFallback, lastFallbackSyncTs, mp, envVars, logVars,
                 histVars, cursorVars, nh, cursorAns, rm, kt, pm, pl>>

\* The key-sync poll writes: text.length > 0 and text !== ed.getValue().
KeySyncWrites_AnyDifferent(text, cur) == text # cur
KeySyncWrites(text, cur) == Len(text) > 0 /\ text # cur

\* ... resumed with the text: setValue when it is non-empty and differs,
\* then await getCursor(); a failed call goes to catch and finally.
keySyncText ==
  /\ events = <<>>
  /\ wire # <<>> /\ Head(wire).t = "keytext"
  /\ LET i == Waiting(kp, "text")
         r == Head(wire)
         ed == kp[i].ed
     IN IF r.ok
        THEN /\ Len(wire) <= MaxWire
             /\ IF KeySyncWrites(r.x, hostText[ed])
                THEN /\ hostText' = [hostText EXCEPT ![ed] = r.x]
                     /\ hostCursor' = [hostCursor EXCEPT
                          ![ed] = setValueCursor(hostText[ed], @, r.x)]
                     /\ staleWrite' = (staleWrite \/ ed # active)
                ELSE UNCHANGED <<hostText, hostCursor, staleWrite>>
             /\ kp' = [kp EXCEPT ![i] = [@ EXCEPT !.pc = "cursor"]]
             /\ \E c \in Reply("cursor", engCursor) :
                  wire' = Append(Tail(wire), c)
             /\ UNCHANGED inputSyncThrottled
        ELSE /\ kp' = Without(kp, i)
             /\ inputSyncThrottled' = FALSE
             /\ wire' = Tail(wire)
             /\ UNCHANGED <<hostText, hostCursor, staleWrite>>
  /\ UNCHANGED <<active, engineVars, applierVars, mode, attachVars,
                 pendingFallback, lastFallbackSyncTs, mp, envVars, logVars,
                 mpSchedAt, mpLastFinish, keyHist, engCursor, nh, cursorAns, rm, kt, pm, pl, kpOwed>>

\* ... resumed with the cursor, which it sets clamped into the document
\* of its editor (or with the failure of getCursor(), caught): finally.
keySyncCursor ==
  /\ events = <<>>
  /\ wire # <<>> /\ Head(wire).t = "cursor"
  /\ wire' = Tail(wire)
  /\ LET ed == kp[Waiting(kp, "cursor")].ed
     IN hostCursor' = IF Head(wire).ok
                      THEN [hostCursor EXCEPT
                              ![ed] = CursorClamp(hostText[ed], Head(wire).x)]
                      ELSE hostCursor
  /\ kp' = Without(kp, Waiting(kp, "cursor"))
  /\ inputSyncThrottled' = FALSE
  /\ UNCHANGED <<hostVars, engineVars, applierVars, mode, attachVars,
                 pendingFallback, lastFallbackSyncTs, mp, envVars, logVars,
                 histVars, keyHist, engCursor, nh, cursorAns, rm, kt, pm, pl, kpOwed>>

\* The engine sends a notification that is neither redraw nor
\* nvim_buf_lines_event.
EngineNotify ==
  /\ events = <<>>
  /\ Len(wire) < MaxWire
  /\ wire' = Append(wire, Msg("notification", TRUE, ""))
  /\ UNCHANGED <<hostVars, engineVars, applierVars, mode, attachVars,
                 throttleVars, pollVars, envVars, logVars, histVars, keyHist,
                 cursorVars, nh, cursorAns, rm, kt, pm, pl, kpOwed>>

\* The else branch of the notification handler: the method is logged.
notification ==
  /\ events = <<>>
  /\ wire # <<>> /\ Head(wire).t = "notification"
  /\ wire' = Tail(wire)
  /\ UNCHANGED <<hostVars, engineVars, applierVars, mode, attachVars,
                 throttleVars, pollVars, envVars, logVars, histVars, keyHist,
                 cursorVars, nh, cursorAns, rm, kt, pm, pl, kpOwed>>

\* String(m ?? "normal") of a mode_change op.
ModeName(m) == IF m = "nil" THEN "normal" ELSE m

\* this.mode after the mode_change ops of one notification: each op
\* overwrites it, so the last one stays.
parseRedrawMode_First(cur, ops) ==
  IF ops = <<>> THEN cur ELSE ModeName(ops[1])
parseRedrawMode(cur, ops) ==
  IF ops = <<>> THEN cur ELSE ModeName(ops[Len(ops)])

\* The microtasks parseRedraw queues for k grid_cursor_goto ops: one each.
CursorFollowUps_OncePerBatch(k) == IF k > 0 THEN 1 ELSE 0
CursorFollowUps(k) == k

\* NvimHost.getCursor(): nvim_win_get_cursor answers [line1, col] with a
\* 1-based line; the result is 0-based and never negative.  A missing value
\* is Absent.
Absent == -99
getCursor_NoClamp(line1, col) ==
  [line |-> (IF line1 = Absent THEN 1 ELSE line1) - 1,
   col |-> IF col = Absent THEN 0 ELSE col]
getCursor(line1, col) ==
  [line |-> Max(0, (IF line1 = Absent THEN 1 ELSE line1) - 1),
   col |-> Max(0, IF col = Absent THEN 0 ELSE col)]

\* The engine answers nvim_win_get_cursor with [line1, col], or the request
\* fails.  One answer is in flight at a time.
EngineWinCursor(line1, col) ==
  /\ events = <<>>
  /\ Len(wire) < MaxWire
  /\ \A i \in 1..Len(wire) : wire[i].t # "wincursor"
  /\ \E m \in Reply("wincursor", [line1 |-> line1, col |-> col]) :
       wire' = Append(wire, m)
  /\ UNCHANGED <<hostVars, engineVars, applierVars, mode, attachVars,
                 throttleVars, pollVars, envVars, logVars, histVars, keyHist,
                 cursorVars, nh, cursorAns, rm, kt, pm, pl, kpOwed>>

\* getCursor() resumed with the answer: it returns the converted position
\* to the follow-up, which hands it to the Cursor listener; a failed
\* request rejects, and the follow-up only warns.
getCursorResume ==
  /\ events = <<>>
  /\ wire # <<>> /\ Head(wire).t = "wincursor"
  /\ IF Head(wire).ok
     THEN LET pos == getCursor(Head(wire).x.line1, Head(wire).x.col)
          IN /\ cursorAns' = [raw |-> Head(wire).x, pos |-> pos]
             /\ wire' = <<Msg("curpos", TRUE, pos)>> \o Tail(wire)
     ELSE /\ wire' = Tail(wire)
          /\ UNCHANGED cursorAns
  /\ UNCHANGED <<hostVars, engineVars, applierVars, mode, attachVars,
                 throttleVars, pollVars, envVars, logVars, histVars, keyHist,
                 cursorVars, nh, rm, kt, pm, pl, kpOwed>>

\* NvimHost's redraw handler: parseRedraw stores the mode of a mode_change
\* op and, for a grid_cursor_goto op, queues a microtask that awaits
\* getCursor(); onRedraw calls maybeScheduleFallbackSync(), which awaits
\* getMode() before that microtask runs.
redraw ==
  /\ events = <<>>
  /\ wire # <<>> /\ Head(wire).t = "redraw"
  /\ mode' = parseRedrawMode(mode, Head(wire).x.modes)
  /\ \E r \in Reply("mode", getMode) :
       \E cs \in [1..CursorFollowUps(Head(wire).x.gotos) ->
                    Reply("curpos", getCursor(engCursor.line + 1, engCursor.col))] :
         wire' = Tail(wire) \o <<r>> \o cs
  /\ UNCHANGED <<hostVars, engineVars, applierVars, attachVars, throttleVars,
                 pollVars, envVars, logVars, histVars, keyHist, cursorVars, nh, cursorAns, rm, kt, pm, pl, kpOwed>>

\* The throttle of the mode-gated poll: this.pendingFallback ||
\* now - this.lastFallbackSyncTs < 50.
FallbackThrottled_PendingOnly == pendingFallback
FallbackThrottled ==
  pendingFallback \/ now - lastFallbackSyncTs < FallbackIntervalMs

\* The mode gate: the awaited mode is "insert" (a failed getMode() goes to
\* the catch of maybeScheduleFallbackSync).
ModeAllowsPoll_Any(r) == r.ok
ModeAllowsPoll(r) == r.ok /\ r.x = "insert"

\* maybeScheduleFallbackSync() resumed with the mode.
maybeScheduleFallbackSync ==
  /\ events = <<>>
  /\ wire # <<>> /\ Head(wire).t = "mode"
  /\ wire' = Tail(wire)
  /\ IF \/ ~ModeAllowsPoll(Head(wire))
        \/ FallbackThrottled
        \/ Len(mp) >= MaxPolls
     THEN UNCHANGED <<pendingFallback, mp, mpSchedAt>>
     ELSE /\ pendingFallback' = TRUE
          /\ mp' = Append(mp, [pc |-> "timer", ed |-> NoEditor])
          /\ mpSchedAt' = now
  /\ UNCHANGED <<hostVars, engineVars, applierVars, mode, attachVars,
                 lastFallbackSyncTs, inputSyncThrottled, kp, envVars, logVars,
                 staleWrite, mpLastFinish, keyHist, cursorVars, nh, cursorAns, rm, kt, pm, pl, kpOwed>>

\* The finally block of the mode-gated poll's callback.
FallbackFinally_KeepsFlag ==
  /\ lastFallbackSyncTs' = now
  /\ pendingFallback' = pendingFallback
FallbackFinally ==
  /\ lastFallbackSyncTs' = now
  /\ pendingFallback' = FALSE

\* The timer callback of maybeScheduleFallbackSync, up to await
\* getBufferText().
fallbackTick(i) ==
  /\ events = <<>>
  /\ mp[i].pc = "timer"
  /\ IF active = NoEditor
     THEN /\ mp' = Without(mp, i)
          /\ FallbackFinally
          /\ mpLastFinish' = now
          /\ UNCHANGED wire
     ELSE /\ Len(wire) < MaxWire
          /\ mp' = [mp EXCEPT ![i] = [pc |-> "text", ed |-> active]]
          /\ \E r \in Reply("modetext", getBufferText) : wire' = Append(wire, r)
          /\ UNCHANGED <<pendingFallback, lastFallbackSyncTs, mpLastFinish>>
  /\ UNCHANGED <<hostVars, engineVars, applierVars, mode, attachVars,
                 inputSyncThrottled, kp, envVars, logVars, staleWrite,
                 mpSchedAt, keyHist, cursorVars, nh, cursorAns, rm, kt, pm, pl, kpOwed>>

\* ... resumed with the text: setValue when it differs; finally.
fallbackText ==
  /\ events = <<>>
  /\ wire # <<>> /\ Head(wire).t = "modetext"
  /\ wire' = Tail(wire)
  /\ LET i == Waiting(mp, "text")
         r == Head(wire)
         ed == mp[i].ed
     IN /\ mp' = Without(mp, i)
        /\ IF r.ok /\ r.x # hostText[ed]
           THEN /\ hostText' = [hostText EXCEPT ![ed] = r.x]
                /\ hostCursor' = [hostCursor EXCEPT
                     ![ed] = setValueCursor(hostText[ed], @, r.x)]
                /\ staleWrite' = (staleWrite \/ ed # active)
           ELSE UNCHANGED <<hostText, hostCursor, staleWrite>>
  /\ FallbackFinally
  /\ mpLastFinish' = now
  /\ UNCHANGED <<active, engineVars, applierVars, mode, attachVars,
                 inputSyncThrottled, kp, envVars, logVars, mpSchedAt, keyHist,
                 engCursor, nh, cursorAns, rm, kt, pm, pl, kpOwed>>

\* nvim.onCursor(pos), called with the answer to the getCursor() that
\* follows a grid_cursor_goto; a failed getCursor() is logged.
onCursor ==
  /\ events = <<>>
  /\ wire # <<>> /\ Head(wire).t = "curpos"
  /\ wire' = Tail(wire)
  /\ hostCursor' = IF Head(wire).ok /\ active # NoEditor
                   THEN [hostCursor EXCEPT
                           ![active] = CursorClamp(hostText[active], Head(wire).x)]
                   ELSE hostCursor
  /\ UNCHANGED <<hostVars, engineVars, applierVars, mode, attachVars,
                 throttleVars, pollVars, envVars, logVars, histVars, keyHist,
                 engCursor, nh, cursorAns, rm, kt, pm, pl, kpOwed>>

(***************************************************************************)
(* syncActiveEditorToNvim and NvimHost.createOrLoadBuffer.  A request acts *)
(* on the engine when it is sent; its reply travels on the wire, and the   *)
(* invocation resumes when the reply is delivered.                         *)
(***************************************************************************)
\* :enew makes a new buffer current; the engine reuses the current buffer
\* when that one is empty.
Enew ==
  IF bufLines[curBuf] = <<<<>>>>
  THEN [cur |-> curBuf, n |-> numBufs]
  ELSE [cur |-> numBufs + 1, n |-> numBufs + 1]

\* The invocation i of sy, moved to the await pc.
At(i, pc) == [sy EXCEPT ![i] = [@ EXCEPT !.pc = pc]]

\* syncActiveEditorToNvim(), up to its first await: bufDetach of the
\* attached buffer when there is one, else createOrLoadBuffer's enew.
syncActiveEditorToNvim ==
  /\ events = <<>>
  /\ syncs < MaxSyncs
  /\ active # NoEditor
  /\ Len(wire) < MaxWire
  /\ syncs' = syncs + 1
  /\ IF attachedBuf # NoBuf
     THEN /\ \E ok \in BOOLEAN :
               /\ subscribed' = IF ok THEN subscribed \ {attachedBuf}
                                 ELSE subscribed
               /\ wire' = Append(wire, Msg("detach", ok, ""))
               /\ sy' = Append(sy, [pc |-> "detach",
                                     text |-> hostText[active],
                                     buf |-> NoBuf,
                                     det |-> IF ok THEN "ok" ELSE "failed"])
          /\ UNCHANGED <<curBuf, numBufs>>
     ELSE /\ Enew.n <= MaxBufs
          /\ curBuf' = Enew.cur
          /\ numBufs' = Enew.n
          /\ wire' = Append(wire, Msg("enew", TRUE, ""))
          /\ sy' = Append(sy, [pc |-> "enew", text |-> hostText[active],
                                buf |-> NoBuf, det |-> "none"])
          /\ UNCHANGED subscribed
  /\ UNCHANGED <<hostVars, bufLines, changedtick, engMode, pendingInput,
                 applierVars, mode, attachedBuf, throttleVars, pollVars,
                 envVars, logVars, histVars, keyHist, cursorVars, nh, cursorAns, rm, kt, pm, pl, kpOwed>>

\* this.attachedBuf after the try/catch around bufDetach, which answered
\* (ok) or failed, when it was b before.
AttachedAfterDetach_KeptOnFailure(ok, b) == IF ok THEN NoBuf ELSE b
AttachedAfterDetach(ok, b) == NoBuf

\* ... resumed after bufDetach (a failure is caught): attachedBuf = null,
\* then createOrLoadBuffer's enew.
syncDetached ==
  /\ events = <<>>
  /\ wire # <<>> /\ Head(wire).t = "detach"
  /\ Enew.n <= MaxBufs
  /\ attachedBuf' = AttachedAfterDetach(Head(wire).ok, attachedBuf)
  /\ curBuf' = Enew.cur
  /\ numBufs' = Enew.n
  /\ wire' = Append(Tail(wire), Msg("enew", TRUE, ""))
  /\ sy' = At(Waiting(sy, "detach"), "enew")
  /\ UNCHANGED <<hostVars, bufLines, subscribed, changedtick, engMode,
                 pendingInput, applierVars, mode, syncs, throttleVars,
                 pollVars, envVars, logVars, histVars, keyHist, cursorVars, nh, cursorAns, rm, kt, pm, pl, kpOwed>>

\* ... resumed after enew: getCurrentBuf().
syncEnew ==
  /\ events = <<>>
  /\ wire # <<>> /\ Head(wire).t = "enew"
  /\ wire' = Append(Tail(wire), Msg("curbuf", TRUE, curBuf))
  /\ sy' = At(Waiting(sy, "enew"), "curbuf")
  /\ UNCHANGED <<hostVars, engineVars, applierVars, mode, attachedBuf,
                 numBufs, syncs, throttleVars, pollVars, envVars, logVars,
                 histVars, keyHist, cursorVars, nh, cursorAns, rm, kt, pm, pl, kpOwed>>

\* ... resumed with buf: setBufferText(buf, text), which notifies the
\* subscriber of buf, and setlocal nomodified.
syncCurBuf ==
  /\ events = <<>>
  /\ wire # <<>> /\ Head(wire).t = "curbuf"
  /\ LET i == Waiting(sy, "curbuf")
         buf == Head(wire).x
         ev == [buf |-> buf, changedtick |-> changedtick + 1,
                firstline |-> 0, lastline |-> Len(bufLines[buf]),
                linedata |-> Split(sy[i].text)]
     IN /\ bufLines' = [bufLines EXCEPT ![buf] = Split(sy[i].text)]
        /\ changedtick' = changedtick + 1
        /\ wire' = IF buf \in subscribed
                   THEN Tail(wire) \o <<Msg("lines", TRUE, ev),
                                        Msg("settext", TRUE, "")>>
                   ELSE Append(Tail(wire), Msg("settext", TRUE, ""))
        /\ sy' = [sy EXCEPT ![i] = [@ EXCEPT !.pc = "settext", !.buf = buf]]
  /\ UNCHANGED <<hostVars, curBuf, subscribed, engMode, pendingInput,
                 applierVars, mode, attachedBuf, numBufs, syncs, throttleVars,
                 pollVars, envVars, logVars, histVars, keyHist, cursorVars, nh, cursorAns, rm, kt, pm, pl, kpOwed>>

\* ... resumed after nomodified: bufAttach(buf).
syncSetText ==
  /\ events = <<>>
  /\ wire # <<>> /\ Head(wire).t = "settext"
  /\ LET i == Waiting(sy, "settext")
     IN /\ \E ok \in BOOLEAN :
             /\ subscribed' = IF ok THEN subscribed \cup {sy[i].buf}
                               ELSE subscribed
             /\ wire' = Append(Tail(wire), Msg("attach", ok, ""))
        /\ sy' = At(i, "attach")
  /\ UNCHANGED <<hostVars, bufLines, curBuf, changedtick, engMode,
                 pendingInput, applierVars, mode, attachedBuf, numBufs, syncs,
                 throttleVars, pollVars, envVars, logVars, histVars, keyHist, cursorVars, nh, cursorAns, rm, kt, pm, pl, kpOwed>>

\* ... resumed after bufAttach (a failure is caught): createOrLoadBuffer
\* returns buf, attachedBuf = buf, then getCursor().
syncAttached ==
  /\ events = <<>>
  /\ wire # <<>> /\ Head(wire).t = "attach"
  /\ LET i == Waiting(sy, "attach")
     IN /\ attachedBuf' = sy[i].buf
        /\ sy' = At(i, "synccursor")
  /\ wire' = Append(Tail(wire), Msg("synccursor", TRUE, engCursor))
  /\ UNCHANGED <<hostVars, engineVars, applierVars, mode, numBufs, syncs,
                 throttleVars, pollVars, envVars, logVars, histVars, keyHist, cursorVars, nh, cursorAns, rm, kt, pm, pl, kpOwed>>

\* ... resumed with the cursor, which it sets clamped into the document
\* of the editor active now: the invocation ends.
syncCursor ==
  /\ events = <<>>
  /\ wire # <<>> /\ Head(wire).t = "synccursor"
  /\ wire' = Tail(wire)
  /\ hostCursor' = IF active # NoEditor
                   THEN [hostCursor EXCEPT
                           ![active] = CursorClamp(hostText[active],
                                                   Head(wire).x)]
                   ELSE hostCursor
  /\ sy' = Without(sy, Waiting(sy, "synccursor"))
  /\ UNCHANGED <<hostVars, engineVars, applierVars, mode, attachedBuf,
                 numBufs, syncs, throttleVars, pollVars, envVars, logVars,
                 histVars, keyHist, engCursor, nh, cursorAns, rm, kt, pm, pl, kpOwed>>

(***************************************************************************)
(* NvimHost (src/src/nvim.ts): start(), createOrLoadBuffer() and stop() as *)
(* their caller sees them.  nh.log lists the calls made, in order, each    *)
(* with whether it succeeded; every awaited call answers or fails.         *)
(***************************************************************************)
Step(op, ok) == [op |-> op, ok |-> ok]
Logged(op, ok) == Append(nh.log, Step(op, ok))

\* A constructed host, and one whose start() has resolved.
NhInit ==
  [pc |-> "idle", log |-> <<>>, start |-> "none", err |-> "",
   handler |-> FALSE, proc |-> "none", client |-> FALSE,
   calls |-> 0, path |-> FALSE, hasText |-> FALSE, text |-> <<>>,
   buf |-> NoBuf, colb |-> "none", mark |-> 0, stop |-> "none"]
NhStarted ==
  [NhInit EXCEPT !.pc = "ready", !.start = "resolved", !.handler = TRUE,
                 !.proc = "running", !.client = TRUE,
                 !.log = <<Step("spawn", TRUE), Step("attach", TRUE),
                           Step("nvim_get_api_info", TRUE),
                           Step("nvim_ui_attach", TRUE)>>]

\* NeovimBackendPlugin before onload.
NoNotification == [session |-> 0, kind |-> "none", handled |-> FALSE]
NoKeydown == [e |-> NoKey.e, term |-> NoTerm, capture |-> FALSE,
              inEditor |-> FALSE, extension |-> FALSE, sends |-> <<>>]
NoHooks == [redraw |-> {}, lines |-> {}, cursor |-> {}]

PlInit == [enabled |-> TRUE, onload |-> "idle", session |-> 0,
           live |-> FALSE, hooks |-> NoHooks, cmExt |-> 0,
           capture |-> FALSE, timers |-> {}, restart |-> "none",
           lastNotification |-> NoNotification, lastKeydown |-> NoKeydown]

\* PerformanceMetrics.
maxSamples == 100

PmInit == [keyLatencies |-> <<>>, syncLatencies |-> <<>>,
           keyAll |-> <<>>, syncAll |-> <<>>]

\* push(latencyMs), then shift() when the array is longer than maxSamples.
pushShift_DropNewest(xs, v) ==
  LET p == Append(xs, v) IN
    IF Len(p) > maxSamples THEN SubSeq(p, 1, maxSamples) ELSE p
pushShift(xs, v) ==
  LET p == Append(xs, v) IN
    IF Len(p) > maxSamples THEN Tail(p) ELSE p

\* Everything but nh.
coreVars == <<hostVars, engineVars, wire, applierVars, mode, attachVars,
              throttleVars, pollVars, envVars, logVars, histVars, keyHist,
              cursorVars, cursorAns, kt, pm, pl, kpOwed>>
plugVars == <<hostVars, engineVars, wire, applierVars, mode, attachVars,
              throttleVars, pollVars, envVars, logVars, histVars, keyHist,
              cursorVars, cursorAns, rm, kt, pm, pl, kpOwed>>

\* start() rejected by the failure of op.
StartRejected(op) ==
  [nh EXCEPT !.pc = "ready", !.start = "rejected", !.err = op,
             !.log = Logged(op, FALSE)]

\* start(), up to await attach(): spawn() throws, or the process runs.
start ==
  /\ nh.pc = "idle"
  /\ \E ok \in BOOLEAN :
       nh' = IF ok
             THEN [nh EXCEPT !.pc = "attach", !.proc = "running",
                             !.log = Logged("spawn", TRUE)]
             ELSE StartRejected("spawn")
  /\ UNCHANGED plugVars

\* ... resumed after attach(): await nvim_get_api_info, or rethrow.
startAttach ==
  /\ nh.pc = "attach"
  /\ \E ok \in BOOLEAN :
       nh' = IF ok
             THEN [nh EXCEPT !.pc = "nvim_get_api_info", !.client = TRUE,
                             !.log = Logged("attach", TRUE)]
             ELSE StartRejected("attach")
  /\ UNCHANGED plugVars

\* Whether a failed nvim_get_api_info ends start(): its catch only warns.
ApiInfoFatal_Always == TRUE
ApiInfoFatal == FALSE

\* ... resumed after nvim_get_api_info: await nvim_ui_attach.
startGetApiInfo ==
  /\ nh.pc = "nvim_get_api_info"
  /\ \E ok \in BOOLEAN :
       nh' = IF ~ok /\ ApiInfoFatal
             THEN StartRejected("nvim_get_api_info")
             ELSE [nh EXCEPT !.pc = "nvim_ui_attach",
                             !.log = Logged("nvim_get_api_info", ok)]
  /\ UNCHANGED plugVars

\* ... resumed after nvim_ui_attach: rethrow, or register the notification
\* handler and return.
startUiAttach ==
  /\ nh.pc = "nvim_ui_attach"
  /\ \E ok \in BOOLEAN :
       nh' = IF ok
             THEN [nh EXCEPT !.pc = "ready", !.start = "resolved",
                             !.handler = TRUE,
                             !.log = Logged("nvim_ui_attach", TRUE)]
             ELSE StartRejected("nvim_ui_attach")
  /\ UNCHANGED plugVars

\* The command createOrLoadBuffer issues first.
ColbCommand(path) == IF path THEN "edit" ELSE "enew"

\* createOrLoadBuffer rejected by the failure of op.
ColbRejected(op) ==
  [nh EXCEPT !.pc = "ready", !.colb = "rejected", !.err = op,
             !.log = Logged(op, FALSE)]

\* createOrLoadBuffer(path, text), up to await command(edit or enew); text
\* is given (and may be empty) or is not.
createOrLoadBuffer(path, hasText, text) ==
  /\ nh.pc = "ready" /\ nh.start = "resolved"
  /\ nh.calls < MaxCalls
  /\ Enew.n <= MaxBufs
  /\ nh' = [nh EXCEPT !.pc = "command", !.calls = @ + 1, !.path = path,
                      !.hasText = hasText, !.text = text, !.buf = NoBuf,
                      !.colb = "none", !.mark = Len(nh.log)]
  /\ UNCHANGED plugVars

\* ... resumed after the command, which made a buffer current: await
\* getCurrentBuf().
colbCommand ==
  /\ nh.pc = "command"
  /\ \E ok \in BOOLEAN :
       IF ok
       THEN /\ nh' = [nh EXCEPT !.pc = "getCurrentBuf",
                                !.log = Logged(ColbCommand(nh.path), TRUE)]
            /\ curBuf' = Enew.cur
            /\ numBufs' = Enew.n
       ELSE /\ nh' = ColbRejected(ColbCommand(nh.path))
            /\ UNCHANGED <<curBuf, numBufs>>
  /\ UNCHANGED <<hostVars, bufLines, subscribed, changedtick, engMode,
                 pendingInput, wire, applierVars, mode, attachedBuf, sy,
                 syncs, throttleVars, pollVars, envVars, logVars, histVars,
                 keyHist, cursorVars, cursorAns, rm, kt, pm, pl, kpOwed>>

\* ... resumed with buf: await setBufferText(buf, text) when text is given,
\* else await bufAttach(buf).
colbGetCurrentBuf ==
  /\ nh.pc = "getCurrentBuf"
  /\ \E ok \in BOOLEAN :
       nh' = IF ok
             THEN [nh EXCEPT !.pc = IF nh.hasText THEN "setBufferText"
                                    ELSE "bufAttach",
                             !.buf = curBuf,
                             !.log = Logged("getCurrentBuf", TRUE)]
             ELSE ColbRejected("getCurrentBuf")
  /\ UNCHANGED plugVars

\* ... resumed after setBufferText, which replaced the lines of buf and
\* notified its subscriber: await command(setlocal nomodified).
colbSetBufferText ==
  /\ nh.pc = "setBufferText"
  /\ \E ok \in BOOLEAN :
       IF ok
       THEN /\ nh' = [nh EXCEPT !.pc = "setlocal nomodified",
                                !.log = Logged("setBufferText", TRUE)]
            /\ bufLines' = [bufLines EXCEPT ![nh.buf] = Split(nh.text)]
            /\ changedtick' = changedtick + 1
            /\ wire' = IF nh.buf \in subscribed
                       THEN Append(wire, Msg("lines", TRUE,
                              [buf |-> nh.buf, changedtick |-> changedtick + 1,
                               firstline |-> 0,
                               lastline |-> Len(bufLines[nh.buf]),
                               linedata |-> Split(nh.text)]))
                       ELSE wire
       ELSE /\ nh' = ColbRejected("setBufferText")
            /\ UNCHANGED <<bufLines, changedtick, wire>>
  /\ UNCHANGED <<hostVars, curBuf, subscribed, engMode, pendingInput,
                 applierVars, mode, attachVars, throttleVars, pollVars,
                 envVars, logVars, histVars, keyHist, cursorVars, cursorAns, rm, kt, pm, pl, kpOwed>>

\* ... resumed after setlocal nomodified: await bufAttach(buf).
colbNoModified ==
  /\ nh.pc = "setlocal nomodified"
  /\ \E ok \in BOOLEAN :
       nh' = IF ok
             THEN [nh EXCEPT !.pc = "bufAttach",
                             !.log = Logged("setlocal nomodified", TRUE)]
             ELSE ColbRejected("setlocal nomodified")
  /\ UNCHANGED plugVars

\* Whether a failed bufAttach ends createOrLoadBuffer: its catch only warns.
BufAttachFatal_Always == TRUE
BufAttachFatal == FALSE

\* ... resumed after bufAttach: return buf.
colbBufAttach ==
  /\ nh.pc = "bufAttach"
  /\ \E ok \in BOOLEAN :
       /\ nh' = IF ~ok /\ BufAttachFatal
                THEN ColbRejected("bufAttach")
                ELSE [nh EXCEPT !.pc = "ready", !.colb = "resolved",
                                !.log = Logged("bufAttach", ok)]
       /\ subscribed' = IF ok THEN subscribed \cup {nh.buf} ELSE subscribed
  /\ UNCHANGED <<hostVars, bufLines, curBuf, changedtick, engMode,
                 pendingInput, wire, applierVars, mode, attachVars,
                 throttleVars, pollVars, envVars, logVars, histVars, keyHist,
                 cursorVars,
                 cursorAns, rm, kt, pm, pl, kpOwed>>

\* stop(), up to await nvim_command(":qa!"); without a client
\* (this.nvim?.request) nothing is requested.
stop ==
  /\ nh.pc = "ready"
  /\ nh' = [nh EXCEPT !.pc = IF nh.client THEN "qa" ELSE "kill"]
  /\ UNCHANGED plugVars

\* Where stop() goes on after the quit-all command answered or failed.
StopAfterQuit_FailEnds(ok) == IF ok THEN "kill" ELSE "stopped"
StopAfterQuit(ok) == "kill"

\* ... resumed after the quit-all command; its failure is caught and logged.
stopQuit ==
  /\ nh.pc = "qa"
  /\ \E ok \in BOOLEAN :
       nh' = [nh EXCEPT !.pc = StopAfterQuit(ok),
                        !.stop = IF StopAfterQuit(ok) = "stopped"
                                 THEN "resolved" ELSE @,
                        !.log = Logged("qa", ok)]
  /\ UNCHANGED plugVars

\* this.proc?.kill(), a throw of which is caught and logged; stop() returns.
stopKill ==
  /\ nh.pc = "kill"
  /\ \E ok \in BOOLEAN :
       nh' = IF nh.proc = "none"
             THEN [nh EXCEPT !.pc = "stopped", !.stop = "resolved"]
             ELSE [nh EXCEPT !.pc = "stopped", !.stop = "resolved",
                             !.proc = IF ok THEN "killed" ELSE @,
                             !.log = Logged("kill", ok)]
  /\ UNCHANGED plugVars

(***************************************************************************)
(* The environment: the user and the clock.                                *)
(***************************************************************************)
\* The user activates another editor, or closes the active one.
switchEditor(e) ==
  /\ events = <<>>
  /\ switches < MaxSwitches
  /\ e # active
  /\ active' = e
  /\ switches' = switches + 1
  /\ UNCHANGED <<hostText, engineVars, wire, applierVars, mode, attachVars,
                 throttleVars, pollVars, now, keys, logVars, histVars, keyHist, cursorVars, nh, cursorAns, rm, kt, pm, pl, kpOwed>>

\* Time passes.
elapse(d) ==
  /\ events = <<>>
  /\ now + d <= MaxTime
  /\ now' = now + d
  /\ UNCHANGED <<hostVars, engineVars, wire, applierVars, mode, attachVars,
                 throttleVars, pollVars, keys, switches, logVars, histVars, keyHist, cursorVars, nh, cursorAns, rm, kt, pm, pl, kpOwed>>

(***************************************************************************)
(* Specifications.                                                         *)
(***************************************************************************)
\* Everything but the host documents and the engine buffers, as it is once
\* the plugin has loaded and syncActiveEditorToNvim has attached buffer 1.
Loaded ==
  /\ curBuf = 1 /\ subscribed = {1} /\ attachedBuf = 1
  /\ sy = <<>> /\ numBufs = 1 /\ syncs = 0
  /\ changedtick = 0 /\ engMode = "normal" /\ mode = "normal"
  /\ pendingInput = 0 /\ wire = <<>>
  /\ queue = <<>> /\ scheduled = FALSE /\ flushCb = 0 /\ events = <<>>
  /\ pendingFallback = FALSE /\ lastFallbackSyncTs = 0
  /\ inputSyncThrottled = FALSE
  /\ mp = <<>> /\ kp = <<>>
  /\ now = FallbackIntervalMs /\ keys = 0 /\ switches = 0
  /\ enqLog = <<>> /\ appLog = <<>> /\ flushMark = [lo |-> 0, hi |-> 0]
  /\ staleWrite = FALSE /\ mpSchedAt = 0 /\ mpLastFinish = -1
  /\ kpStarts = <<>>
  /\ hostCursor = [e \in Editors |-> [line |-> 0, ch |-> 0]]
  /\ engCursor = [line |-> 0, col |-> 0]
  /\ nh = NhStarted
  /\ cursorAns = NoAnswer
  /\ rm = RmInit(DEFAULT_RECOVERY_CONFIG)
  /\ kt = NoKey
  /\ pm = PmInit
  /\ pl = PlInit
  /\ kpOwed = FALSE

\* The documents open when the plugin has loaded: the active editor's text
\* is the text pushed to buffer 1.
Doc1 == Join(<<<<"a">>, <<"b", "c">>>>)
Doc2 == Join(<<<<"c">>>>)
EditData == {<<>>, <<<<"b">>>>}

Init ==
  /\ Loaded
  /\ active = 1
  /\ hostText = [e \in Editors |-> IF e = 1 THEN Doc1 ELSE Doc2]
  /\ bufLines = [b \in BufIds |-> IF b = 1 THEN Split(Doc1) ELSE <<<<>>>>]

Next ==
  \/ keydown
  \/ \E f \in 0..MaxLines, l \in 0..MaxLines, d \in EditData : EngineEdit(f, l, d)
  \/ \E m \in {"none", "normal", "insert"} : EngineKey(m)
  \/ enqueue
  \/ flush
  \/ flushApply
  \/ handleKeyDrivenSync
  \/ \E i \in 1..Len(kp) : keySyncTick(i)
  \/ keySyncText
  \/ keySyncCursor
  \/ redraw
  \/ maybeScheduleFallbackSync
  \/ \E i \in 1..Len(mp) : fallbackTick(i)
  \/ fallbackText
  \/ \E e \in Editors \cup {NoEditor} : switchEditor(e)
  \/ \E d \in {KeySyncDelayMs, FallbackIntervalMs} : elapse(d)

\* The plugin with buffer 1 attached: keys, engine edits, the Sync Applier
\* and both polls.  Attaching again is the subject of SpecAttach.
Spec == Init /\ [][Next]_vars

\* The Sync Applier alone: what the keys typed within one key-sync delay
\* lead to, before any fallback poll runs.
NextQueue ==
  \/ keydown
  \/ \E f \in 0..MaxLines, l \in 0..MaxLines, d \in EditData : EngineEdit(f, l, d)
  \/ enqueue
  \/ flush
  \/ flushApply
  \/ handleKeyDrivenSync
  \/ \E e \in Editors \cup {NoEditor} : switchEditor(e)

SpecQueue == Init /\ [][NextQueue]_vars

\* The Sync Applier while the user switches documents: keys and the edits
\* they cause in the attached buffer, the switch, the attachment of a new
\* buffer for the editor active then, and the flush.
NextSwitch ==
  \/ keydown
  \/ \E d \in EditData : EngineEdit(0, 1, d)
  \/ enqueue
  \/ flush
  \/ flushApply
  \/ handleKeyDrivenSync
  \/ \E e \in Editors \cup {NoEditor} : switchEditor(e)
  \/ syncActiveEditorToNvim
  \/ syncDetached
  \/ syncEnew
  \/ syncCurBuf
  \/ syncSetText
  \/ syncAttached
  \/ syncCursor

SpecSwitch == Init /\ [][NextSwitch]_vars

\* The Sync Applier with an engine that also sends malformed payloads: one
\* of wrong arity (linedata missing) and those of five elements whose
\* firstline and lastline are numeric strings or null.
MalformedArgs ==
  {<<1, 1, Num(0), Num(1)>>}
    \cup {<<1, 1, a, b, d>> : a \in {Str(0), Null}, b \in {Str(1), Null},
                             d \in {<<<<"b">>>>}}

NextMalformed ==
  \/ keydown
  \/ \E f \in 0..MaxLines, l \in 0..MaxLines, d \in EditData : EngineEdit(f, l, d)
  \/ \E args \in MalformedArgs : EngineMalformed(args)
  \/ enqueue
  \/ onLinesMalformed
  \/ flush
  \/ flushApply
  \/ handleKeyDrivenSync

SpecMalformed == Init /\ [][NextMalformed]_vars

\* NvimHost from its construction: no process, an engine with one empty
\* buffer once it runs, nothing attached; then start(), calls of
\* createOrLoadBuffer with and without a path and a text, and stop().
InitHost ==
  /\ curBuf = 1 /\ subscribed = {} /\ attachedBuf = NoBuf
  /\ sy = <<>> /\ numBufs = 1 /\ syncs = 0
  /\ changedtick = 0 /\ engMode = "normal" /\ mode = "normal"
  /\ pendingInput = 0 /\ wire = <<>>
  /\ queue = <<>> /\ scheduled = FALSE /\ flushCb = 0 /\ events = <<>>
  /\ pendingFallback = FALSE /\ lastFallbackSyncTs = 0
  /\ inputSyncThrottled = FALSE
  /\ mp = <<>> /\ kp = <<>>
  /\ now = FallbackIntervalMs /\ keys = 0 /\ switches = 0
  /\ enqLog = <<>> /\ appLog = <<>> /\ flushMark = [lo |-> 0, hi |-> 0]
  /\ staleWrite = FALSE /\ mpSchedAt = 0 /\ mpLastFinish = -1
  /\ kpStarts = <<>>
  /\ hostCursor = [e \in Editors |-> [line |-> 0, ch |-> 0]]
  /\ engCursor = [line |-> 0, col |-> 0]
  /\ active = 1
  /\ hostText = [e \in Editors |-> IF e = 1 THEN Doc1 ELSE Doc2]
  /\ bufLines = [b \in BufIds |-> <<<<>>>>]
  /\ nh = NhInit
  /\ cursorAns = NoAnswer
  /\ rm = RmInit(DEFAULT_RECOVERY_CONFIG)
  /\ kt = NoKey
  /\ pm = PmInit
  /\ pl = PlInit
  /\ kpOwed = FALSE

NextHost ==
  \/ start
  \/ startAttach
  \/ startGetApiInfo
  \/ startUiAttach
  \/ \E path \in BOOLEAN : createOrLoadBuffer(path, FALSE, <<>>)
  \/ \E path \in BOOLEAN, text \in {<<>>, Doc1} :
       createOrLoadBuffer(path, TRUE, text)
  \/ colbCommand
  \/ colbGetCurrentBuf
  \/ colbSetBufferText
  \/ colbNoModified
  \/ colbBufAttach
  \/ stop
  \/ stopQuit
  \/ stopKill

SpecHost == InitHost /\ [][NextHost]_vars

\* Keys that edit and move the cursor: the Sync Applier, the cursor
\* follow-up of a redraw and the key-sync poll.
CursorMoves == [line : 0..(MaxLines - 1), col : {0}]

NextCursor ==
  \/ keydown
  \/ \E f \in 0..MaxLines, l \in 0..MaxLines, d \in EditData, c \in CursorMoves :
       EngineEditCursor(f, l, d, c)
  \/ enqueue
  \/ flush
  \/ flushApply
  \/ handleKeyDrivenSync
  \/ \E i \in 1..Len(kp) : keySyncTick(i)
  \/ keySyncText
  \/ keySyncCursor
  \/ redraw
  \/ maybeScheduleFallbackSync
  \/ onCursor
  \/ elapse(KeySyncDelayMs)

SpecCursor == Init /\ [][NextCursor]_vars

\* Redraw notifications alone, within one instant of the clock: batches
\* with no, one or two mode_change ops and up to MaxOps grid_cursor_goto
\* ops, and the follow-up requests they cause.
ModeBatches ==
  {<<>>, <<"insert">>, <<"normal">>, <<"nil">>,
   <<"normal", "insert">>, <<"insert", "normal">>, <<"insert", "nil">>}

NextRedraw ==
  \/ \E ms \in ModeBatches, k \in 0..MaxOps, c \in CursorMoves :
       EngineRedrawBatch(ms, k, c)
  \/ redraw
  \/ maybeScheduleFallbackSync
  \/ onCursor
  \/ switchEditor(NoEditor)

SpecRedraw == Init /\ [][NextRedraw]_vars

\* The event loop runs every queued handler and microtask.
SpecRedrawLive ==
  /\ SpecRedraw
  /\ WF_vars(redraw) /\ WF_vars(maybeScheduleFallbackSync) /\ WF_vars(onCursor)

\* Everything that reaches the session while redraws change the mode: keys
\* and their acknowledgement, line-change notifications and their flush,
\* cursor ops and their follow-ups, get-mode requests and notifications of
\* other methods.
NextMode ==
  \/ \E ms \in ModeBatches, k \in {0, 1} :
       EngineRedrawBatch(ms, k, engCursor)
  \/ redraw
  \/ maybeScheduleFallbackSync
  \/ onCursor
  \/ keydown
  \/ handleKeyDrivenSync
  \/ \E d \in EditData : EngineEdit(0, 1, d)
  \/ enqueue
  \/ flush
  \/ flushApply
  \/ EngineNotify
  \/ notification

SpecMode == Init /\ [][NextMode]_vars

\* getCursor() alone, with every answer the engine can give: a line from
\* below 1 to beyond the document, a column from below 0 to beyond the
\* line, and either of them missing.
WinLines == {Absent} \cup (-1)..(MaxLines + 1)
WinCols == {Absent} \cup (-1)..MaxCol

NextGetCursor ==
  \/ \E line1 \in WinLines, col \in WinCols : EngineWinCursor(line1, col)
  \/ getCursorResume
  \/ onCursor

SpecGetCursor == Init /\ [][NextGetCursor]_vars

(***************************************************************************)
(* ErrorRecoveryManager: its methods.  The callback and the timeout of     *)
(* sleep() are the environment's: the callback settles either way, the    *)
(* timeout fires unless it was cleared.                                    *)
(***************************************************************************)
InProgress(r, c) == r.calls[c].pc \in {"callback", "sleep"}

\* clearRecoveryTimer(): clearTimeout of the handle stored last, whichever
\* call's sleep() stored it.
clearRecoveryTimer(r) ==
  IF r.recoveryTimer = NoTimer THEN r
  ELSE [r EXCEPT !.calls[r.recoveryTimer].armed = FALSE,
                 !.recoveryTimer = NoTimer]

\* Call c returns res from retryWithBackoff; the finally of attemptRecovery
\* runs.
Returned(r, c, res) ==
  clearRecoveryTimer([r EXCEPT !.isRecovering = FALSE,
                               !.calls[c].pc = "done",
                               !.calls[c].result = res])

\* retryWithBackoff from the loop condition to the next await: the sleep
\* before a retry, or the callback at once when the count is 1.
retryWithBackoff(r, c) ==
  IF r.retryCount < r.config.maxRetries
  THEN LET n == r.retryCount + 1
       IN IF n > 1
          THEN [r EXCEPT !.retryCount = n,
                         !.recoveryTimer = c,
                         !.calls[c].pc = "sleep",
                         !.calls[c].armed = TRUE,
                         !.calls[c].waits = Append(@, calculateDelay(r.config, n))]
          ELSE [r EXCEPT !.retryCount = n,
                         !.calls[c].pc = "callback",
                         !.calls[c].invoked = @ + 1]
  ELSE Returned(r, c, "false")

\* attemptRecovery(callback, context), call c, up to its first await.
attemptRecovery(c) ==
  /\ rm.calls[c].pc = "idle"
  /\ \A d \in Recoveries : d < c => rm.calls[d].pc # "idle"
  /\ LET busy == \E d \in Recoveries : InProgress(rm, d)
     IN rm' = IF rm.isRecovering
              THEN [rm EXCEPT !.calls[c].pc = "done",
                              !.calls[c].result = "false",
                              !.calls[c].overlap = busy]
              ELSE LET r == retryWithBackoff(
                              [rm EXCEPT !.isRecovering = TRUE,
                                         !.retryCount = 0,
                                         !.calls[c].overlap = busy], c)
                   IN [r EXCEPT !.calls[c].disturbed =
                                   busy /\ r.retryCount # rm.retryCount]
  /\ UNCHANGED <<coreVars, nh>>

\* The callback of call c settles: resolved, the call returns true; rejected,
\* it returns false after the last attempt and goes round the loop
\* otherwise.
callbackSettles(c, ok) ==
  /\ rm.calls[c].pc = "callback"
  /\ rm' = IF ok THEN Returned(rm, c, "true")
           ELSE IF rm.retryCount >= rm.config.maxRetries
                THEN Returned(rm, c, "false")
                ELSE retryWithBackoff(rm, c)
  /\ UNCHANGED <<coreVars, nh>>

\* The timeout of call c's sleep fires: the callback is invoked.
timerFires(c) ==
  /\ rm.calls[c].pc = "sleep" /\ rm.calls[c].armed
  /\ rm' = [rm EXCEPT !.calls[c].pc = "callback",
                      !.calls[c].armed = FALSE,
                      !.calls[c].invoked = @ + 1]
  /\ UNCHANGED <<coreVars, nh>>

\* cancel().
cancel ==
  /\ rm.cancels < MaxCancels
  /\ rm' = clearRecoveryTimer(
             [rm EXCEPT !.isRecovering = FALSE,
                        !.cancels = @ + 1,
                        !.calls = [c \in Recoveries |->
                           IF InProgress(rm, c) /\ rm.calls[c].cancelledAt = -1
                           THEN [rm.calls[c] EXCEPT !.cancelledAt = rm.calls[c].invoked]
                           ELSE rm.calls[c]]])
  /\ UNCHANGED <<coreVars, nh>>

\* reset().
reset ==
  /\ rm.resets < MaxResets
  /\ rm' = clearRecoveryTimer(
             [rm EXCEPT !.isRecovering = FALSE, !.retryCount = 0,
                        !.resets = @ + 1])
  /\ UNCHANGED <<coreVars, nh>>

\* The manager alone, with the default configuration and two small ones:
\* three retries with a cap that the second wait reaches, and no retry.
RecoveryConfigs ==
  {DEFAULT_RECOVERY_CONFIG,
   [maxRetries |-> 3, retryDelayMs |-> 1, backoffMultiplier |-> 3, maxDelayMs |-> 5],
   [maxRetries |-> 0, retryDelayMs |-> 1, backoffMultiplier |-> 2, maxDelayMs |-> 5]}

\* new ErrorRecoveryManager(cfg) in place of the one constructed by
\* default, before any use.
construct(cfg) ==
  /\ rm = RmInit(DEFAULT_RECOVERY_CONFIG)
  /\ cfg # DEFAULT_RECOVERY_CONFIG
  /\ rm' = RmInit(cfg)
  /\ UNCHANGED <<coreVars, nh>>

NextRecovery ==
  \/ \E cfg \in RecoveryConfigs : construct(cfg)
  \/ \E c \in Recoveries : attemptRecovery(c)
  \/ \E c \in Recoveries, ok \in BOOLEAN : callbackSettles(c, ok)
  \/ \E c \in Recoveries : timerFires(c)
  \/ cancel
  \/ reset

SpecRecovery == Init /\ [][NextRecovery]_vars

\* The callback settles and a pending timeout fires.
SpecRecoveryLive ==
  /\ SpecRecovery
  /\ \A c \in Recoveries :
       /\ WF_vars(\E ok \in BOOLEAN : callbackSettles(c, ok))
       /\ WF_vars(timerFires(c))

\* A keydown event reaches translateKey.
translate(e) ==
  /\ kt' = [e |-> e, term |-> translateKey(e)]
  /\ UNCHANGED <<hostVars, engineVars, wire, applierVars, mode, attachVars,
                 throttleVars, pollVars, envVars, logVars, histVars, keyHist,
                 cursorVars, cursorAns, nh, rm, pm, pl, kpOwed>>

\* translateKey alone, over every event of KeyEvents.
NextKeys == \E e \in KeyEvents : translate(e)

SpecKeys == Init /\ [][NextKeys]_vars

recordKeyLatency(latencyMs) ==
  /\ Len(pm.keyAll) < MaxRecords
  /\ pm' = [pm EXCEPT !.keyLatencies = pushShift(@, latencyMs),
                      !.keyAll = Append(@, latencyMs)]
  /\ UNCHANGED <<hostVars, engineVars, wire, applierVars, mode, attachVars,
                 throttleVars, pollVars, envVars, logVars, histVars, keyHist,
                 cursorVars, cursorAns, nh, rm, kt, pl, kpOwed>>

recordSyncLatency(latencyMs) ==
  /\ Len(pm.syncAll) < MaxRecords
  /\ pm' = [pm EXCEPT !.syncLatencies = pushShift(@, latencyMs),
                      !.syncAll = Append(@, latencyMs)]
  /\ UNCHANGED <<hostVars, engineVars, wire, applierVars, mode, attachVars,
                 throttleVars, pollVars, envVars, logVars, histVars, keyHist,
                 cursorVars, cursorAns, nh, rm, kt, pl, kpOwed>>

\* recordKeyLatency and recordSyncLatency alone; the k-th call of either
\* records the latency the test records, k for a key and 2k for a sync.
NextMetrics ==
  \/ recordKeyLatency(Len(pm.keyAll))
  \/ recordSyncLatency(2 * Len(pm.syncAll))

SpecMetrics == Init /\ [][NextMetrics]_vars

\* NeovimBackendPlugin: onload, restartNvim and the handlers they install.
\* A session is the n-th NvimHost the plugin created; 0 is this.nvim
\* undefined.
otherVars == <<hostVars, engineVars, wire, applierVars, mode, attachVars,
               throttleVars, pollVars, envVars, logVars, histVars, keyHist,
               cursorVars, cursorAns, nh, rm, kt, pm, kpOwed>>

\* this.nvim.onCmdline = ... is not under if (this.nvim): without a host it
\* throws a TypeError, which the catch of onload logs and rethrows.
CmdlineHookup(session) == session # 0

\* The listeners onload assigns under if (this.nvim), on the host of then.
HookAll(session) ==
  IF session = 0 THEN NoHooks
  ELSE [redraw |-> {session}, lines |-> {session}, cursor |-> {session}]

\* onload with the loaded settings; startOk: nvim.start() resolved.
onload(enabled, startOk) ==
  /\ pl.onload = "idle"
  /\ LET started == enabled /\ startOk
         session == IF enabled THEN 1 ELSE 0
         done == (enabled => startOk) /\ CmdlineHookup(session)
     IN pl' = [pl EXCEPT
                 !.enabled = enabled,
                 !.session = session,
                 !.live = started,
                 !.hooks = IF started THEN HookAll(session) ELSE NoHooks,
                 !.timers = IF done THEN {"layout", "initial"} ELSE {},
                 !.onload = IF done THEN "resolved" ELSE "rejected"]
  /\ UNCHANGED otherVars

\* tryRegisterCmExtension: neovimExtension(this.nvim) keeps the host of the
\* moment of registration.
tryRegisterCmExtension(hasView) ==
  IF pl.cmExt = 0 /\ hasView THEN pl.session ELSE pl.cmExt

\* The timeout of onLayoutReady, active-leaf-change or file-open.
layoutTimer(hasView) ==
  /\ "layout" \in pl.timers
  /\ pl' = [pl EXCEPT !.cmExt = tryRegisterCmExtension(hasView)]
  /\ UNCHANGED otherVars

\* The timeout "Initial attempt" of onload: it also installs the capture
\* keydown listener on window.
initialAttempt(hasView) ==
  /\ "initial" \in pl.timers
  /\ pl' = [pl EXCEPT !.cmExt = tryRegisterCmExtension(hasView),
                      !.capture = TRUE,
                      !.timers = @ \ {"initial"}]
  /\ UNCHANGED otherVars

\* What startNvim hooks up on the host it creates: nothing.
RehookOnStart(hooks, session) == hooks

\* The host the registered extension sends to after startNvim: the one it
\* was constructed with.
ExtensionHostAfterStart(cmExt, session) == cmExt

\* restartNvim from the ribbon or a command: stop() in a try/catch,
\* startNvim(), syncActiveEditorToNvim().
restartNvim(startOk) ==
  /\ pl.onload = "resolved"
  /\ pl.session < MaxSessions
  /\ pl' = [pl EXCEPT
              !.session = @ + 1,
              !.live = startOk,
              !.hooks = RehookOnStart(@, pl.session + 1),
              !.cmExt = ExtensionHostAfterStart(@, pl.session + 1),
              !.restart = IF startOk THEN "resolved" ELSE "rejected"]
  /\ UNCHANGED otherVars

\* onunload: the host is stopped; the listeners and the extension
\* registered through the plugin go with it.
onunload ==
  /\ pl.onload = "resolved"
  /\ pl' = [pl EXCEPT !.onload = "unloaded", !.live = FALSE,
                      !.capture = FALSE, !.cmExt = 0, !.timers = {}]
  /\ UNCHANGED otherVars

NotificationKinds == {"redraw", "lines", "cursor"}

\* The running session sends a notification: NvimHost calls
\* this.onRedraw?.(), this.onLines?.() or this.onCursor?.().
sessionNotifies(kind) ==
  /\ pl.live
  /\ pl' = [pl EXCEPT !.lastNotification =
                        [session |-> pl.session, kind |-> kind,
                         handled |-> pl.session \in pl.hooks[kind]]]
  /\ UNCHANGED otherVars

\* Allow only Ctrl+P to Obsidian.
CtrlP(e) == e.ctrlKey /\ ~e.shiftKey /\ ~e.altKey /\ e.key \in {"P", "p"}

\* The keys the keymap of the extension binds, and what it sends for them.
KeymapKeys ==
  [Escape |-> <<"<", "Esc", ">">>, h |-> <<"h">>, j |-> <<"j">>,
   k |-> <<"k">>, l |-> <<"l">>, i |-> <<"i">>,
   Backspace |-> <<"<", "BS", ">">>, Delete |-> <<"<", "Del", ">">>,
   Enter |-> <<"<", "CR", ">">>, Tab |-> <<"<", "Tab", ">">>,
   ArrowUp |-> <<"<", "Up", ">">>, ArrowDown |-> <<"<", "Down", ">">>,
   ArrowLeft |-> <<"<", "Left", ">">>, ArrowRight |-> <<"<", "Right", ">">>]
SimpleTerms == {KeymapKeys[k] : k \in DOMAIN KeymapKeys}

\* A binding without modifiers runs for the key pressed without modifiers.
KeymapRuns(e) ==
  /\ e.key \in DOMAIN KeymapKeys
  /\ ~e.ctrlKey /\ ~e.altKey /\ ~e.metaKey /\ ~e.shiftKey

Send(via, session, term) == [via |-> via, session |-> session, term |-> term]

\* The capture listener: the sends it makes, and whether it stopped the
\* event (preventDefault, stopPropagation, __nvimHandled).
CaptureStops_Never(e) == FALSE
CaptureStops(e) == ~CtrlP(e) /\ translateKey(e) # NoTerm
capture(e) ==
  IF ~CtrlP(e) /\ translateKey(e) # NoTerm
  THEN <<Send("capture", pl.session, translateKey(e))>>
  ELSE <<>>

\* The extension on an event that reached the editor: the keymap first,
\* then the keydown handler of domEventHandlers.
extension(e) ==
  IF KeymapRuns(e) THEN <<Send("keymap", pl.cmExt, KeymapKeys[e.key])>>
  ELSE IF CtrlP(e) \/ translateKey(e) = NoTerm THEN <<>>
  ELSE IF translateKey(e) \in SimpleTerms THEN <<>>
  ELSE <<Send("dom", pl.cmExt, translateKey(e))>>

\* A keydown of the host; inEditor: its target is inside the editor.
hostKeydown(e, inEditor) ==
  /\ pl.onload = "resolved"
  /\ LET stopped == pl.capture /\ CaptureStops(e)
         first == IF pl.capture THEN capture(e) ELSE <<>>
         second == IF ~stopped /\ inEditor /\ pl.cmExt # 0
                   THEN extension(e) ELSE <<>>
     IN pl' = [pl EXCEPT !.lastKeydown =
                 [e |-> e, term |-> translateKey(e), capture |-> pl.capture,
                  inEditor |-> inEditor, extension |-> pl.cmExt # 0,
                  sends |-> first \o second]]
  /\ UNCHANGED otherVars

\* Loading, restarting and the notifications of the running session.
NextPlugin ==
  \/ \E enabled, startOk \in BOOLEAN : onload(enabled, startOk)
  \/ \E hasView \in BOOLEAN : layoutTimer(hasView)
  \/ \E hasView \in BOOLEAN : initialAttempt(hasView)
  \/ \E startOk \in BOOLEAN : restartNvim(startOk)
  \/ \E kind \in NotificationKinds : sessionNotifies(kind)
  \/ onunload

SpecPlugin == Init /\ [][NextPlugin]_vars

\* The keydown events of the routing: a key of each kind with every
\* combination of Ctrl, Shift and Alt.
RoutedKeys == {"a", "h", "p", "P", ":", "Escape", "Tab", "F1", "Shift"}
RoutedEvents ==
  {e \in KeyEvents : e.key \in RoutedKeys /\ ~e.metaKey /\ ~e.isComposing}

\* Loading, restarting and the keys of the host.
NextRouting ==
  \/ \E enabled, startOk \in BOOLEAN : onload(enabled, startOk)
  \/ \E hasView \in BOOLEAN : layoutTimer(hasView)
  \/ \E hasView \in BOOLEAN : initialAttempt(hasView)
  \/ \E startOk \in BOOLEAN : restartNvim(startOk)
  \/ \E e \in RoutedEvents, inEditor \in BOOLEAN : hostKeydown(e, inEditor)
  \/ onunload

SpecRouting == Init /\ [][NextRouting]_vars

\* The two throttled polls alone: keys that change the mode or nothing,
\* redraws at any rate, the user closing the editor, and the clock.
NextThrottle ==
  \/ keydown
  \/ \E m \in {"none", "normal", "insert"} : EngineKey(m)
  \/ EngineRedraw
  \/ handleKeyDrivenSync
  \/ \E i \in 1..Len(kp) : keySyncTick(i)
  \/ keySyncText
  \/ keySyncCursor
  \/ redraw
  \/ maybeScheduleFallbackSync
  \/ \E i \in 1..Len(mp) : fallbackTick(i)
  \/ fallbackText
  \/ switchEditor(NoEditor)
  \/ \E d \in {KeySyncDelayMs, FallbackIntervalMs} : elapse(d)

\* The host document has drifted from the engine buffer, the situation the
\* polls exist for.
InitThrottle ==
  /\ Loaded
  /\ active = 1
  /\ hostText = [e \in Editors |-> Doc2]
  /\ bufLines = [b \in BufIds |-> IF b = 1 THEN Split(Doc1) ELSE <<<<>>>>]

SpecThrottle == InitThrottle /\ [][NextThrottle]_vars

\* The key-sync poll alone, with an engine buffer that is empty, equal to
\* the host document or different from it.
InitKeySync ==
  /\ Loaded
  /\ active = 1
  /\ hostText = [e \in Editors |-> Doc2]
  /\ \E ls \in {<<<<>>>>, Split(Doc1), Split(Doc2)} :
       bufLines = [b \in BufIds |-> IF b = 1 THEN ls ELSE <<<<>>>>]

NextKeySync ==
  \/ keydown
  \/ handleKeyDrivenSync
  \/ \E i \in 1..Len(kp) : keySyncTick(i)
  \/ keySyncText
  \/ keySyncCursor
  \/ \E e \in Editors \cup {NoEditor} : switchEditor(e)
  \/ \E d \in {KeySyncDelayMs, FallbackIntervalMs} : elapse(d)

SpecKeySync == InitKeySync /\ [][NextKeySync]_vars

\* The clock advances while a timer of handleKeyDrivenSync waits.
elapseToTimer ==
  /\ \E i \in 1..Len(kp) : kp[i].pc = "timer" /\ now < kp[i].due
  /\ elapse(KeySyncDelayMs)

\* The key-sync poll with an editor that stays open.  The event loop runs
\* every handler whose message has arrived and every timer that is due, and
\* time passes.
NextKeyPoll ==
  \/ keydown
  \/ handleKeyDrivenSync
  \/ \E i \in 1..Len(kp) : keySyncTick(i)
  \/ keySyncText
  \/ keySyncCursor
  \/ elapseToTimer

SpecKeyPollLive ==
  /\ InitKeySync /\ [][NextKeyPoll]_vars
  /\ WF_vars(handleKeyDrivenSync)
  /\ WF_vars(\E i \in 1..Len(kp) : keySyncTick(i))
  /\ WF_vars(keySyncText)
  /\ WF_vars(keySyncCursor)
  /\ WF_vars(elapseToTimer)

\* Attachment alone, from the start of the engine: one empty buffer,
\* nothing attached; every trigger of onload starts an invocation.
InitAttach ==
  /\ curBuf = 1 /\ subscribed = {} /\ attachedBuf = NoBuf
  /\ sy = <<>> /\ numBufs = 1 /\ syncs = 0
  /\ changedtick = 0 /\ engMode = "normal" /\ mode = "normal"
  /\ pendingInput = 0 /\ wire = <<>>
  /\ queue = <<>> /\ scheduled = FALSE /\ flushCb = 0 /\ events = <<>>
  /\ pendingFallback = FALSE /\ lastFallbackSyncTs = 0
  /\ inputSyncThrottled = FALSE
  /\ mp = <<>> /\ kp = <<>>
  /\ now = FallbackIntervalMs /\ keys = 0 /\ switches = 0
  /\ enqLog = <<>> /\ appLog = <<>> /\ flushMark = [lo |-> 0, hi |-> 0]
  /\ staleWrite = FALSE /\ mpSchedAt = 0 /\ mpLastFinish = -1
  /\ kpStarts = <<>>
  /\ hostCursor = [e \in Editors |-> [line |-> 0, ch |-> 0]]
  /\ engCursor = [line |-> 0, col |-> 0]
  /\ nh = NhStarted
  /\ cursorAns = NoAnswer
  /\ rm = RmInit(DEFAULT_RECOVERY_CONFIG)
  /\ kt = NoKey
  /\ pm = PmInit
  /\ pl = PlInit
  /\ kpOwed = FALSE
  /\ active = 1
  /\ hostText = [e \in Editors |-> IF e = 1 THEN Doc1 ELSE Doc2]
  /\ bufLines = [b \in BufIds |-> <<<<>>>>]

NextAttach ==
  \/ syncActiveEditorToNvim
  \/ syncDetached
  \/ syncEnew
  \/ syncCurBuf
  \/ syncSetText
  \/ syncAttached
  \/ syncCursor
  \/ enqueue
  \/ flush
  \/ flushApply
  \/ \E e \in Editors \cup {NoEditor} : switchEditor(e)

SpecAttach == InitAttach /\ [][NextAttach]_vars

\* applyEvent alone: flush() has captured one event, drawn from every event
\* with 0 <= firstline <= lastline <= MaxLines + 1, for a document drawn
\* from every document of 1..MaxLines lines.  Every editor starts with that
\* document, so the inactive one keeps the text from before the event.
Docs == {Join(ls) : ls \in SeqsUpTo(LineVals, MaxLines) \ {<<>>}}
ApplyEvents ==
  {[buf |-> 1, changedtick |-> 1, firstline |-> f, lastline |-> l, linedata |-> d] :
     f \in 0..(MaxLines + 1), l \in 0..(MaxLines + 1), d \in SeqsUpTo(LineVals, MaxData)}

InitApply ==
  /\ curBuf = 1 /\ subscribed = {1} /\ attachedBuf = 1
  /\ sy = <<>> /\ numBufs = 1 /\ syncs = 0
  /\ changedtick = 1 /\ engMode = "normal" /\ mode = "normal"
  /\ pendingInput = 0 /\ wire = <<>>
  /\ queue = <<>> /\ scheduled = FALSE /\ flushCb = 0
  /\ pendingFallback = FALSE /\ lastFallbackSyncTs = 0
  /\ inputSyncThrottled = FALSE
  /\ mp = <<>> /\ kp = <<>>
  /\ now = FallbackIntervalMs /\ keys = 0 /\ switches = 0
  /\ staleWrite = FALSE /\ mpSchedAt = 0 /\ mpLastFinish = -1
  /\ kpStarts = <<>>
  /\ hostCursor = [e \in Editors |-> [line |-> 0, ch |-> 0]]
  /\ engCursor = [line |-> 0, col |-> 0]
  /\ nh = NhStarted
  /\ cursorAns = NoAnswer
  /\ rm = RmInit(DEFAULT_RECOVERY_CONFIG)
  /\ kt = NoKey
  /\ pm = PmInit
  /\ pl = PlInit
  /\ kpOwed = FALSE
  /\ active = 1
  /\ \E doc \in Docs :
       /\ hostText = [e \in Editors |-> doc]
       /\ bufLines = [b \in BufIds |-> Split(doc)]
  /\ \E ev \in ApplyEvents :
       /\ ev.firstline <= ev.lastline
       /\ events = <<ev>>
       /\ enqLog = <<ev>>
  /\ appLog = <<>> /\ flushMark = [lo |-> 0, hi |-> 1]

SpecApply == InitApply /\ [][flushApply]_vars

\* The cursor handler as a function of its inputs: one answered getCursor()
\* in flight, for every document of 1..MaxLines lines and the document of
\* three lines whose last line has five characters, every engine cursor
\* of CursorLines x CursorCols, with and without an active editor.
CursorDoc == Join(<<<<"a">>, <<>>, <<"a", "b", "c", "d", "e">>>>)
CursorLines == 0..(MaxLines + 1) \cup {10}
CursorCols == 0..MaxCol \cup {99}

InitOnCursor ==
  /\ curBuf = 1 /\ subscribed = {1} /\ attachedBuf = 1
  /\ sy = <<>> /\ numBufs = 1 /\ syncs = 0
  /\ changedtick = 1 /\ engMode = "normal" /\ mode = "normal"
  /\ pendingInput = 0
  /\ queue = <<>> /\ scheduled = FALSE /\ flushCb = 0 /\ events = <<>>
  /\ pendingFallback = FALSE /\ lastFallbackSyncTs = 0
  /\ inputSyncThrottled = FALSE
  /\ mp = <<>> /\ kp = <<>>
  /\ now = FallbackIntervalMs /\ keys = 0 /\ switches = 0
  /\ enqLog = <<>> /\ appLog = <<>> /\ flushMark = [lo |-> 0, hi |-> 0]
  /\ staleWrite = FALSE /\ mpSchedAt = 0 /\ mpLastFinish = -1
  /\ kpStarts = <<>>
  /\ active \in {1, NoEditor}
  /\ \E doc \in Docs \cup {CursorDoc} :
       /\ hostText = [e \in Editors |-> doc]
       /\ bufLines = [b \in BufIds |-> Split(doc)]
  /\ hostCursor = [e \in Editors |-> [line |-> 0, ch |-> 0]]
  /\ engCursor \in [line : CursorLines, col : CursorCols]
  /\ nh = NhStarted
  /\ cursorAns = NoAnswer
  /\ rm = RmInit(DEFAULT_RECOVERY_CONFIG)
  /\ kt = NoKey
  /\ pm = PmInit
  /\ pl = PlInit
  /\ kpOwed = FALSE
  /\ wire = <<Msg("curpos", TRUE, engCursor)>>

SpecOnCursor == InitOnCursor /\ [][onCursor]_vars

(***************************************************************************)
(* Claims C1-C3: applyEvent, under SpecApply.                              *)
(***************************************************************************)
Take(ls, n) == SubSeq(ls, 1, Min(n, Len(ls)))
Drop(ls, n) == SubSeq(ls, Min(n, Len(ls)) + 1, Len(ls))

\* applyEvent has acted on the one captured event.
Applied == appLog # <<>> /\ events = <<>> /\ active = 1
TheEvent == appLog[1]
\* The lines of the document before (kept by the inactive editor) and after.
Before == Split(hostText[2])
After == Split(hostText[1])
\* The lines [firstline, lastline) replaced by the event's lines, every
\* other line kept.
Replaced == Take(Before, TheEvent.firstline) \o TheEvent.linedata
              \o Drop(Before, TheEvent.lastline)

C3_DeletesLines ==
  (/\ Applied
   /\ TheEvent.linedata = <<>>
   /\ TheEvent.lastline > TheEvent.firstline
   /\ TheEvent.lastline <= Len(Before)
   /\ TheEvent.lastline - TheEvent.firstline < Len(Before))
    => /\ Len(After) = Len(Before) - (TheEvent.lastline - TheEvent.firstline)
       /\ After = Replaced

(***************************************************************************)
(* Claims C4, C5: the queue of the Sync Applier, under SpecQueue.          *)
(***************************************************************************)
\* C4: the events enqueued before a flush runs are applied by that one
\* flush, in the order of their arrival: what has been applied and what the
\* running flush still holds is, in order, everything that had been
\* enqueued when it captured the queue.
C4_FlushAppliesInArrivalOrder ==
  /\ flushMark.hi <= Len(enqLog)
  /\ appLog \o events = SubSeq(enqLog, 1, flushMark.hi)

\* One flush captured two events and has applied both.
C4_Witness ==
  /\ events = <<>>
  /\ flushMark.hi - flushMark.lo = 2
  /\ Len(appLog) = flushMark.hi
  /\ active = 1

\* C5: every event passed to enqueue is handed to applyEvent exactly once:
\* the events enqueued are, in order, those applied, those the running flush
\* still holds and those queued, none of them twice; an event enqueued
\* while a flush runs stays queued, with a flush scheduled for it.
C5_AppliedExactlyOnce ==
  /\ enqLog = appLog \o events \o queue
  /\ \A i, j \in 1..Len(appLog) : i # j => appLog[i] # appLog[j]
  /\ queue # <<>> => (scheduled /\ flushCb > 0)

\* A flush is running and an event has been enqueued meanwhile.
C5_Witness ==
  /\ events # <<>>
  /\ queue # <<>>
  /\ flushCb = 1


(***************************************************************************)
(* Claims C6, C8: the host document, under Spec.                           *)
(***************************************************************************)
\* Nothing is under way: no key waits in the engine, no message travels, no
\* event is queued or being applied, no flush is scheduled, no poll is
\* pending or in flight, and the editor the buffer was attached for is
\* still the active one.
Quiescent ==
  /\ pendingInput = 0 /\ wire = <<>>
  /\ queue = <<>> /\ events = <<>> /\ flushCb = 0
  /\ mp = <<>> /\ kp = <<>>
  /\ active = 1 /\ switches = 0

\* C6: whenever the change queue is empty and no fallback poll is pending
\* or in flight (and nothing else is under way), the text of the host
\* document equals the text of the attached engine buffer.
C6_HostEqualsEngine ==
  Quiescent => hostText[active] = Join(bufLines[attachedBuf])

\* C8: every write of a poll to the host goes to the editor that is active
\* at the moment of the write.
C8_WritesGoToActiveEditor == staleWrite = FALSE


(***************************************************************************)
(* Claims C9, C10: the throttles of the two polls, under SpecThrottle.     *)
(***************************************************************************)
\* C9: once the callback of a poll has finished, by success, for want of an
\* active editor or by a failed engine call, its throttle flag is false
\* again: a flag is true only while its callback is pending or in flight.
C9_FlagResetWhenCallbackFinishes ==
  /\ pendingFallback <=> mp # <<>>
  /\ inputSyncThrottled <=> kp # <<>>

\* A mode-gated poll has finished, a key-sync poll has been scheduled and
\* has finished, and both flags are false.
C9_Witness ==
  /\ mpLastFinish >= 0 /\ mp = <<>> /\ ~pendingFallback
  /\ keys > 0 /\ wire = <<>> /\ kp = <<>> /\ ~inputSyncThrottled

\* C10: at most one mode-gated poll is pending or in flight, and the one
\* that is was scheduled at least 50 ms after the previous one finished.
C10_AtMostOncePerInterval ==
  /\ Len(mp) <= 1
  /\ (mp # <<>> /\ mpLastFinish >= 0)
       => mpSchedAt - mpLastFinish >= FallbackIntervalMs

\* A second mode-gated poll is pending after the first one finished.
C10_Witness ==
  /\ mp # <<>> /\ mpLastFinish >= 0
  /\ mpSchedAt - mpLastFinish = FallbackIntervalMs


(***************************************************************************)
(* Claim C7: the attachment, under SpecAttach.                             *)
(***************************************************************************)
\* C7: at most one engine buffer is subscribed at every moment, and once no
\* invocation of syncActiveEditorToNvim is suspended, no buffer other than
\* attachedBuf is subscribed.
C7_OneSubscribedBuffer ==
  /\ Cardinality(subscribed) <= 1
  /\ sy = <<>> => subscribed \subseteq {attachedBuf}


(***************************************************************************)
(* Claim C11: the throttle of the key-sync poll, under SpecThrottle.       *)
(***************************************************************************)
\* C11: at most one key-sync poll is pending or in flight, and two
\* consecutive polls start at least 33 ms apart.
C11_KeySyncAtMostOncePerDelay ==
  /\ Len(kp) <= 1
  /\ \A i \in 1..(Len(kpStarts) - 1) :
       kpStarts[i + 1] - kpStarts[i] >= KeySyncDelayMs

\* A second key-sync poll has started, 33 ms after the first.
C11_Witness ==
  /\ Len(kpStarts) = 2
  /\ kpStarts[2] - kpStarts[1] = KeySyncDelayMs


C13_KeySyncWritesIffNonEmptyAndDifferent ==
  [][(/\ wire # <<>> /\ Head(wire).t = "keytext"
      /\ kp' # kp)
       => LET r == Head(wire)
              ed == kp[Waiting(kp, "text")].ed
          IN IF r.ok /\ r.x # <<>> /\ r.x # hostText[ed]
             THEN /\ hostText'[ed] = r.x
                  /\ \A e \in Editors \ {ed} : hostText'[e] = hostText[e]
             ELSE hostText' = hostText]_vars

\* The poll fetched a text that differs from the document and has written
\* it; it now awaits the cursor.
C13_Witness ==
  /\ kp # <<>> /\ kp[1].pc = "cursor"
  /\ active = 1 /\ Len(kpStarts) = 1
  /\ hostText[1] = Doc1 /\ hostText[1] = getBufferText

(***************************************************************************)
(* Claim C14: the cursor handler, under SpecOnCursor.                      *)
(***************************************************************************)
\* C14: once the cursor handler has run with an active editor, the host
\* cursor is inside the host document: its line is the engine line, or the
\* last line when the engine line is beyond it, and its column is the
\* engine column, or the length of that line when the column is beyond it.
C14_CursorClampedIntoDocument ==
  (wire = <<>> /\ active # NoEditor) =>
    LET t == hostText[active]
        c == hostCursor[active]
        last == lineCount(t) - 1
    IN /\ c.line \in 0..last
       /\ c.line = (IF engCursor.line > last THEN last ELSE engCursor.line)
       /\ c.ch \in 0..Len(getLine(t, c.line))
       /\ c.ch = (IF engCursor.col > Len(getLine(t, c.line))
                  THEN Len(getLine(t, c.line)) ELSE engCursor.col)

\* The handler has run for an engine cursor of {line 10, column 99} on the
\* three-line document whose line 2 has length 5, and set {line 2, ch 5}.
C14_Witness ==
  /\ wire = <<>> /\ active = 1 /\ hostText[1] = CursorDoc
  /\ engCursor = [line |-> 10, col |-> 99]
  /\ hostCursor[1] = [line |-> 2, ch |-> 5]

(***************************************************************************)
(* Claim C15: the host cursor and the engine cursor, under SpecCursor.     *)
(***************************************************************************)
\* C15: once every pending notification has been processed (no key is
\* unprocessed, no message is in flight, the change queue is flushed, no
\* poll is pending or in flight), the cursor of the host editor is the
\* engine's cursor.
C15_HostCursorEqualsEngineCursor ==
  Quiescent =>
    hostCursor[active] = [line |-> engCursor.line, ch |-> engCursor.col]
(***************************************************************************)
(* Claim C16: applying without an active editor, under SpecQueue.          *)
(***************************************************************************)
\* C16: while no host editor is active, flush() leaves the queue empty and
\* the scheduled flag cleared with every queued event captured, and each
\* iteration of its loop consumes the next captured event and changes no
\* document, no cursor and nothing of the queue.
C16_NoEditorAppliesNothing ==
  [][active = NoEditor =>
       /\ flushCb' < flushCb =>
            /\ queue' = <<>> /\ scheduled' = FALSE
            /\ events' = queue
       /\ (events # <<>> /\ events' # events) =>
            /\ events' = Tail(events)
            /\ appLog' = Append(appLog, Head(events))
            /\ UNCHANGED <<hostText, hostCursor, queue, scheduled>>]_vars

\* A flush that captured two events has run to its end without an active
\* editor: both are consumed and the documents are those of the start.
C16_Witness ==
  /\ active = NoEditor /\ events = <<>>
  /\ flushMark = [lo |-> 0, hi |-> 2] /\ Len(appLog) = 2
  /\ queue = <<>> /\ scheduled = FALSE
  /\ hostText = [e \in Editors |-> IF e = 1 THEN Doc1 ELSE Doc2]
(***************************************************************************)
(* Claim C17: malformed payloads, under SpecMalformed.                     *)
(***************************************************************************)
\* C17: handling a buffer-lines notification with a malformed payload
\* enqueues nothing and schedules no flush, so that nothing of it can
\* reach the host document.
C17_MalformedIsDropped ==
  [][(wire # <<>> /\ Head(wire).t = "rawlines" /\ wire' = Tail(wire))
       => UNCHANGED <<queue, scheduled, flushCb, hostText>>]_vars
(***************************************************************************)
(* Claims C18-C20: NvimHost's start, stop and createOrLoadBuffer, under    *)
(* SpecHost.                                                               *)
(***************************************************************************)
\* The call op was made and failed, resp. was made, within the calls L.
FailedIn(L, op) == \E i \in 1..Len(L) : L[i] = Step(op, FALSE)
IssuedIn(L, op) == \E i \in 1..Len(L) : L[i].op = op

\* C18: once start() has finished, it has rejected exactly when spawn,
\* attach or nvim_ui_attach failed; after a failed nvim_get_api_info the
\* nvim_ui_attach was still issued; and after a failed nvim_ui_attach it
\* has rejected with that error and no notification handler is registered,
\* while a resolved start() has registered one.
C18_StartFailsIffFatalStepFails ==
  nh.start # "none" =>
    /\ nh.start = "rejected" <=>
         \/ FailedIn(nh.log, "spawn") \/ FailedIn(nh.log, "attach")
         \/ FailedIn(nh.log, "nvim_ui_attach")
    /\ FailedIn(nh.log, "nvim_get_api_info") =>
         IssuedIn(nh.log, "nvim_ui_attach")
    /\ FailedIn(nh.log, "nvim_ui_attach") =>
         /\ nh.start = "rejected" /\ nh.err = "nvim_ui_attach"
         /\ ~nh.handler
    /\ nh.start = "resolved" => nh.handler

\* start() has resolved although its capability query failed.
C18_Witness ==
  /\ nh.start = "resolved" /\ nh.handler
  /\ nh.log = <<Step("spawn", TRUE), Step("attach", TRUE),
                Step("nvim_get_api_info", FALSE),
                Step("nvim_ui_attach", TRUE)>>

\* C19: stop() never rejects; when it has returned, the kill of the
\* process was attempted whenever there is a process, also after a failed
\* quit-all command, and a failed kill leaves it resolved as well.
C19_StopNeverThrows ==
  /\ nh.stop # "rejected"
  /\ nh.pc = "stopped" =>
       /\ nh.stop = "resolved"
       /\ nh.proc # "none" => IssuedIn(nh.log, "kill")
       /\ FailedIn(nh.log, "qa") /\ nh.proc # "none" =>
            nh.log[Len(nh.log)].op = "kill"

\* stop() has returned after a failed quit-all command, the process killed.
C19_Witness ==
  /\ nh.pc = "stopped" /\ nh.stop = "resolved" /\ nh.proc = "killed"
  /\ FailedIn(nh.log, "qa")
  /\ nh.log[Len(nh.log)] = Step("kill", TRUE)

\* The calls createOrLoadBuffer makes when none fails.
ColbExpected ==
  <<ColbCommand(nh.path), "getCurrentBuf">>
    \o (IF nh.hasText THEN <<"setBufferText", "setlocal nomodified">>
        ELSE <<>>)
    \o <<"bufAttach">>

\* C20: once a call of createOrLoadBuffer has finished, the calls it made
\* are, in this order, the command (edit or enew), the query of the buffer
\* id, the set-text and the mark-unmodified when a text was given, and the
\* attach, cut short after the first of them that failed; it has resolved
\* with the buffer id exactly when none before the attach failed, whatever
\* the attach did, and has otherwise rejected without attempting the attach.
C20_CreateOrLoadBufferOrder ==
  (nh.pc = "ready" /\ nh.colb # "none") =>
    LET L == SubSeq(nh.log, nh.mark + 1, Len(nh.log))
        n == Len(ColbExpected)
    IN /\ Len(L) \in 1..n
       /\ \A i \in 1..Len(L) : L[i].op = ColbExpected[i]
       /\ \A i \in 1..(Len(L) - 1) : L[i].ok
       /\ nh.colb = "resolved" <=>
            (Len(L) = n /\ \A i \in 1..(n - 1) : L[i].ok)
       /\ nh.colb = "resolved" => nh.buf # NoBuf
       /\ nh.colb = "rejected" <=>
            (Len(L) < n /\ ~L[Len(L)].ok /\ ~IssuedIn(L, "bufAttach"))

\* A call with a text has resolved with the buffer id although the attach
\* failed.
C20_Witness ==
  /\ nh.pc = "ready" /\ nh.colb = "resolved" /\ nh.hasText /\ nh.buf # NoBuf
  /\ SubSeq(nh.log, nh.mark + 1, Len(nh.log)) =
       <<Step("enew", TRUE), Step("getCurrentBuf", TRUE),
         Step("setBufferText", TRUE), Step("setlocal nomodified", TRUE),
         Step("bufAttach", FALSE)>>

\* A step in which the handler of the first pending message, of type t,
\* runs: the messages change otherwise than by the engine appending one.
HeadHandled(t) ==
  /\ wire # <<>> /\ Head(wire).t = t /\ wire' # wire
  /\ (Len(wire') <= Len(wire) \/ SubSeq(wire', 1, Len(wire)) # wire)

(***************************************************************************)
(* Claim C21: a failed detach during a document switch, under SpecAttach.  *)
(***************************************************************************)
\* C21: an invocation of syncActiveEditorToNvim that finds a buffer attached
\* attempts the detach before anything else and creates no buffer in that
\* step; when it resumes after the detach, failed or not, attachedBuf is
\* cleared and the creation of the new buffer is issued; and when an
\* invocation whose detach failed resumes after the attach, attachedBuf
\* names the buffer it created, which is subscribed if the attach answered.
C21_SwitchProceedsAfterFailedDetach ==
  [][/\ (Len(sy') > Len(sy) /\ attachedBuf # NoBuf) =>
          /\ Len(wire') = Len(wire) + 1
          /\ wire'[Len(wire')].t = "detach"
          /\ sy'[Len(sy')].pc = "detach"
          /\ UNCHANGED <<curBuf, numBufs, bufLines>>
     /\ HeadHandled("detach") =>
          /\ attachedBuf' = NoBuf
          /\ sy'[Waiting(sy, "detach")].pc = "enew"
          /\ wire'[Len(wire')].t = "enew"
     /\ (HeadHandled("attach")
           /\ sy[Waiting(sy, "attach")].det = "failed") =>
          /\ sy[Waiting(sy, "attach")].buf # NoBuf
          /\ attachedBuf' = sy[Waiting(sy, "attach")].buf
          /\ Head(wire).ok => attachedBuf' \in subscribed]_vars

\* The one invocation whose detach of buffer 1 failed has created, filled
\* and attached buffer 2, and attachedBuf names it.
C21_Witness ==
  /\ Len(sy) = 1 /\ sy[1].pc = "synccursor" /\ sy[1].det = "failed"
  /\ sy[1].buf = 2 /\ attachedBuf = 2 /\ subscribed = {1, 2}
  /\ bufLines[2] = Split(sy[1].text)
\* The number of messages of type t in w.
Count(w, t) == Cardinality({i \in 1..Len(w) : w[i].t = t})

\* C22: processing a redraw notification with k grid_cursor_goto ops issues
\* exactly k getCursor() queries, each answered with the engine's cursor;
\* every answer reaches the Cursor listener once, which places the host
\* cursor at the queried position; a failed query calls no listener, issues
\* no new query, changes nothing else and leaves the messages behind it in
\* place; and a redraw with such ops always leads to a query's answer
\* being handled.
C22_CursorFollowUp ==
  /\ [][/\ HeadHandled("redraw") =>
            LET k == Head(wire).x.gotos
            IN /\ Len(wire') = Len(wire) + k
               /\ Count(wire', "curpos") = Count(wire, "curpos") + k
               /\ \A j \in 1..k :
                    /\ wire'[Len(wire) + j].t = "curpos"
                    /\ wire'[Len(wire) + j].x = engCursor
               /\ UNCHANGED hostCursor
        /\ HeadHandled("curpos") =>
            /\ wire' = Tail(wire)
            /\ UNCHANGED <<hostText, mode, engineVars, throttleVars, mp>>
            /\ IF Head(wire).ok /\ active # NoEditor
               THEN hostCursor' = [hostCursor EXCEPT ![active] =
                      CursorClamp(hostText[active], Head(wire).x)]
               ELSE UNCHANGED hostCursor]_vars
  /\ (wire # <<>> /\ Head(wire).t = "redraw" /\ Head(wire).x.gotos > 0)
       ~> (wire # <<>> /\ Head(wire).t = "curpos")

\* Two ops in one batch: the first query failed and left the host cursor
\* alone, the second one's answer is still to be delivered.
C22_Witness ==
  /\ Len(wire) = 2 /\ active = 1
  /\ wire[1].t = "curpos" /\ ~wire[1].ok
  /\ wire[2].t = "curpos" /\ wire[2].ok /\ wire[2].x.line = 1
  /\ hostCursor[1].line = 0

\* C23: the stored mode changes only in a step that handles a redraw
\* notification carrying a mode_change op, whatever else happens (keys,
\* line-change notifications and flushes, cursor follow-ups, get-mode
\* answers, notifications of other methods); a handled redraw leaves the
\* mode named by its last mode_change op, or the mode as it was when it
\* has none.
C23_ModeSetOnlyByModeChange ==
  [][/\ mode' # mode =>
          HeadHandled("redraw") /\ Head(wire).x.modes # <<>>
     /\ HeadHandled("redraw") =>
          LET ops == Head(wire).x.modes
          IN mode' = IF ops = <<>> THEN mode
                     ELSE IF ops[Len(ops)] = "nil" THEN "normal"
                     ELSE ops[Len(ops)]]_vars

\* An earlier redraw has stored "insert"; a notification with two
\* mode_change ops, the last naming "normal", is next, with a line-change
\* event queued.
C23_Witness ==
  /\ mode = "insert"
  /\ wire # <<>> /\ Head(wire).t = "redraw"
  /\ Head(wire).x.modes = <<"insert", "normal">>
  /\ queue # <<>>

\* C24: the position getCursor() returns for an answer [line1, col] has
\* line line1 - 1 when line1 is at least 1 and line 0 when it is 0,
\* negative or missing, and column col when col is at least 0 and column 0
\* when it is negative or missing; neither is ever negative, and so for
\* every position on its way to the Cursor listener.
C24_GetCursorZeroBasedNonNegative ==
  LET r == cursorAns.raw
      p == cursorAns.pos
  IN /\ p.line >= 0 /\ p.col >= 0
     /\ p.line = IF r.line1 # Absent /\ r.line1 >= 1 THEN r.line1 - 1 ELSE 0
     /\ p.col = IF r.col # Absent /\ r.col >= 0 THEN r.col ELSE 0
     /\ \A i \in 1..Len(wire) :
          wire[i].t = "curpos" => wire[i].x.line >= 0 /\ wire[i].x.col >= 0

\* The engine answered [0, -1]; the position returned is {0, 0} and is on
\* its way to the listener.
C24_Witness ==
  /\ cursorAns.raw = [line1 |-> 0, col |-> -1]
  /\ cursorAns.pos = [line |-> 0, col |-> 0]
  /\ wire # <<>> /\ Head(wire) = Msg("curpos", TRUE, cursorAns.pos)

\* C25: the callback of one attemptRecovery call is never invoked more
\* than maxRetries times; a call that returned true had its callback
\* invoked, and a call that returned false either was refused before any
\* invocation or had its callback invoked maxRetries times.
C25_AttemptsUntilSuccessOrMax ==
  \A c \in Recoveries :
    LET k == rm.calls[c]
    IN /\ k.invoked <= rm.config.maxRetries
       /\ k.result = "true" => k.invoked >= 1
       /\ k.result = "false" =>
            \/ k.invoked = rm.config.maxRetries
            \/ k.invoked = 0 /\ k.overlap

\* C26: an attemptRecovery call made while another one is in progress has
\* returned false at once, without invoking its callback and without
\* changing the retry count.
C26_ConcurrentCallRefused ==
  \A c \in Recoveries :
    rm.calls[c].overlap =>
      /\ rm.calls[c].pc = "done" /\ rm.calls[c].result = "false"
      /\ rm.calls[c].invoked = 0
      /\ ~rm.calls[c].disturbed

\* C27: the callback of a call that cancel() found in progress is not
\* invoked after that cancel().
C27_NoInvocationAfterCancel ==
  \A c \in Recoveries :
    rm.calls[c].cancelledAt # -1 => rm.calls[c].invoked = rm.calls[c].cancelledAt

\* C28: a call that cancel() found in progress, in its callback or in its
\* sleep, returns in the end, with isRecovering false.
C28_CancelledCallSettles ==
  \A c \in Recoveries :
    (rm.calls[c].cancelledAt # -1)
      ~> (rm.calls[c].pc = "done" /\ ~rm.isRecovering)

\* C29: the first wait of a call is retryDelayMs, every later wait is the
\* one before it times backoffMultiplier, capped by maxDelayMs, and no wait
\* exceeds maxDelayMs.
C29_BackoffFromInitialDelay ==
  \A c \in Recoveries :
    LET w == rm.calls[c].waits
    IN \A i \in 1..Len(w) :
         /\ w[i] <= rm.config.maxDelayMs
         /\ w[i] = IF i = 1 THEN rm.config.retryDelayMs
                   ELSE Min(w[i - 1] * rm.config.backoffMultiplier,
                            rm.config.maxDelayMs)

\* C30: translateKey returns null for every event that is mid-composition
\* and for every event whose key is Shift, Control, Alt or Meta, whatever
\* its modifier flags.
C30_NullForCompositionAndModifiers ==
  (kt.e.isComposing \/ kt.e.key \in {"Shift", "Control", "Alt", "Meta"})
    => kt.term = NoTerm

\* The Control key pressed, with its own flag and Shift set, gave null.
C30_Witness ==
  /\ kt.e.key = "Control" /\ kt.e.ctrlKey /\ kt.e.shiftKey
  /\ ~kt.e.isComposing
  /\ kt.term = NoTerm

\* C31: for an event that is not composing, with Ctrl and neither Alt nor
\* Meta, a letter in either case, with or without Shift, gives "<C-x>" with
\* x the lower-case letter, except that h gives "<BS>" and m gives "<CR>";
\* "[" gives "<Esc>".
C31_CtrlLetter ==
  (/\ ~kt.e.isComposing /\ kt.e.ctrlKey /\ ~kt.e.altKey /\ ~kt.e.metaKey
   /\ kt.e.key \in {"a", "A", "h", "H", "m", "M", "z", "["}) =>
    kt.term = CASE kt.e.key \in {"a", "A"} -> <<"<", "C-", "a", ">">>
                [] kt.e.key = "z" -> <<"<", "C-", "z", ">">>
                [] kt.e.key \in {"h", "H"} -> <<"<", "BS", ">">>
                [] kt.e.key \in {"m", "M"} -> <<"<", "CR", ">">>
                [] kt.e.key = "[" -> <<"<", "Esc", ">">>

\* Ctrl+Shift+A gave "<C-a>".
C31_Witness ==
  /\ kt.e.key = "A" /\ kt.e.ctrlKey /\ kt.e.shiftKey
  /\ ~kt.e.altKey /\ ~kt.e.metaKey /\ ~kt.e.isComposing
  /\ kt.term = <<"<", "C-", "a", ">">>

\* The symbolic names the tests and the description give for the named
\* keys.
DocumentedForm ==
  [Escape |-> "Esc", Enter |-> "CR", Backspace |-> "BS", Tab |-> "Tab",
   ArrowUp |-> "Up", ArrowDown |-> "Down", ArrowLeft |-> "Left",
   ArrowRight |-> "Right", Home |-> "Home", End |-> "End",
   PageUp |-> "PageUp", PageDown |-> "PageDown", Insert |-> "Insert",
   Delete |-> "Del"]

\* What an event without Ctrl, Alt and Meta gives when the function keys
\* are those of fns: a named key its documented form, Shift+Tab "<S-Tab>",
\* a function key "<Fn>", a key of one character itself, any other key
\* null.
UnmodifiedForm(e, fns) ==
  IF e.key = "Tab" /\ e.shiftKey THEN <<"<", "S-", "Tab", ">">>
  ELSE IF e.key \in DOMAIN DocumentedForm THEN <<"<", DocumentedForm[e.key], ">">>
  ELSE IF e.key \in fns THEN <<"<", e.key, ">">>
  ELSE IF e.key \in CharKeys THEN <<e.key>>
  ELSE NoTerm

LastN(s, k) == SubSeq(s, Len(s) - k + 1, Len(s))

\* C33: after n calls of recordKeyLatency (of recordSyncLatency) the
\* retained samples are the most recent min(n, 100) recorded values in
\* recording order, and never more than 100.
C33_LastHundredSamples ==
  /\ pm.keyLatencies = LastN(pm.keyAll, Min(Len(pm.keyAll), 100))
  /\ pm.syncLatencies = LastN(pm.syncAll, Min(Len(pm.syncAll), 100))
  /\ Len(pm.keyLatencies) <= 100
  /\ Len(pm.syncLatencies) <= 100

\* 102 key latencies were recorded: the first two are gone, 100 stay.
C33_Witness ==
  /\ Len(pm.keyAll) = 102
  /\ Len(pm.keyLatencies) = 100
  /\ pm.keyLatencies[1] = 2
  /\ pm.keyLatencies[100] = 101

\* C34: an onload with settings.enabled = false completes without throwing
\* and starts no engine session.
C34_DisabledLoadCompletes ==
  (pl.onload # "idle" /\ ~pl.enabled) =>
    (pl.onload # "rejected" /\ pl.session = 0)

\* C39: after a restartNvim that completed, a notification of the new
\* session reaches the listener onload hooked up for its kind, and the
\* registered editor extension sends to the new session.
C39_RestartedSessionWired ==
  (pl.onload = "resolved" /\ pl.restart = "resolved") =>
    /\ (pl.lastNotification.session = pl.session =>
          pl.lastNotification.handled)
    /\ (pl.cmExt # 0 => pl.cmExt = pl.session)

C35_ScheduledIffOneFlushPending ==
  /\ flushCb <= 1
  /\ scheduled <=> (flushCb = 1)
  /\ queue # <<>> => scheduled

\* After a flush that applied an event, another event is queued behind one
\* newly scheduled flush.
C35_Witness ==
  /\ events = <<>>
  /\ Len(appLog) > 0
  /\ queue # <<>>
  /\ scheduled /\ flushCb = 1

\* A position of document t: a line of it and a column within that line.
InDocument(t, pos) ==
  /\ pos.line >= 0 /\ pos.line < lineCount(t)
  /\ pos.ch >= 0 /\ pos.ch <= Len(getLine(t, pos.line))

\* Position a is not after position b.
NotAfter(a, b) == a.line < b.line \/ (a.line = b.line /\ a.ch <= b.ch)

\* C36: for every event with 0 <= firstLine <= lastLine the range
\* applyEvent hands to replaceRange starts at a position of the host
\* document, ends at one, and does not start after its end.
C36_RangeWellFormed ==
  Applied =>
    /\ InDocument(hostText[2], applyFrom(hostText[2], TheEvent))
    /\ InDocument(hostText[2], applyTo(hostText[2], TheEvent))
    /\ NotAfter(applyFrom(hostText[2], TheEvent),
                applyTo(hostText[2], TheEvent))

\* C37: buffer 1 holds the text of editor 1 and of no other editor, so an
\* event of buffer 1 that applyEvent handles leaves the text of editor 2 as
\* it is.
C37_EventAppliedToOwnEditor ==
  [][(appLog' # appLog /\ Head(events).buf = 1) =>
       hostText'[2] = hostText[2]]_vars

\* C38: once handleKeyDrivenSync has been called for a keystroke, a
\* key-sync poll issues its buffer-text fetch afterwards: a call is never
\* left without a poll that starts after it.
C38_TriggerLeadsToPoll == kpOwed ~> ~kpOwed

====
